---- MODULE Spec2Model ----
(***************************************************************************)
(* Model of the streaming response interceptor of                          *)
(* traefik-umami-tag-injector (src/umami_injector.go).                     *)
(*                                                                         *)
(* A byte is a one-character string; the byte 0xE9 (a Latin-1 "e acute",   *)
(* not valid UTF-8 on its own) is written "xE9" and the three bytes of the *)
(* UTF-8 encoding of U+FFFD are written "xEF", "xBF", "xBD".  A byte       *)
(* string ([]byte or string) is a sequence of bytes.                       *)
(***************************************************************************)
EXTENDS Integers, Sequences, FiniteSets, TLC

VARIABLES w, sink, h, g

vars == <<w, sink, h, g>>

----------------------------------------------------------------------------
(* Byte strings                                                            *)

Min(a, b) == IF a <= b THEN a ELSE b

\* s[:n] of Go, for 0 <= n <= len(s)
Take(s, n) == SubSeq(s, 1, n)

\* s[n:] of Go, for 0 <= n <= len(s)
Drop(s, n) == SubSeq(s, n + 1, Len(s))

UpperLetters ==
    <<"A", "B", "C", "D", "E", "F", "G", "H", "I", "J", "K", "L", "M",
      "N", "O", "P", "Q", "R", "S", "T", "U", "V", "W", "X", "Y", "Z">>

LowerLetters ==
    <<"a", "b", "c", "d", "e", "f", "g", "h", "i", "j", "k", "l", "m",
      "n", "o", "p", "q", "r", "s", "t", "u", "v", "w", "x", "y", "z">>

\* bytes >= utf8.RuneSelf (0x80)
HighBytes == {"xE9", "xEF", "xBF", "xBD"}

\* utf8 encoding of utf8.RuneError (U+FFFD)
RuneErrorBytes == <<"xEF", "xBF", "xBD">>

UpperToLower ==
    [c \in {UpperLetters[i] : i \in 1..26} |->
        LowerLetters[CHOOSE i \in 1..26 : UpperLetters[i] = c]]

\* c += 'a' - 'A' for 'A' <= c <= 'Z'
lowerASCII(c) == IF c \in DOMAIN UpperToLower THEN UpperToLower[c] ELSE c

\* bytes.Map(unicode.ToLower, s): an ASCII byte is lower-cased in place; a
\* high byte that starts the encoding of U+FFFD is copied with its two
\* continuation bytes; any other high byte of the alphabet is an invalid
\* encoding of width 1, decoded as utf8.RuneError and re-encoded as three
\* bytes.
RECURSIVE mapToLower(_)
mapToLower(s) ==
    IF s = <<>> THEN <<>>
    ELSE IF Head(s) \notin HighBytes
         THEN <<lowerASCII(Head(s))>> \o mapToLower(Tail(s))
    ELSE IF Len(s) >= 3 /\ SubSeq(s, 1, 3) = RuneErrorBytes
         THEN RuneErrorBytes \o mapToLower(SubSeq(s, 4, Len(s)))
    ELSE RuneErrorBytes \o mapToLower(Tail(s))

\* bytes.ToLower / strings.ToLower: the ASCII fast path keeps the length,
\* the general path goes through bytes.Map.
ToLower(s) ==
    IF \A i \in 1..Len(s) : s[i] \notin HighBytes
    THEN [i \in 1..Len(s) |-> lowerASCII(s[i])]
    ELSE mapToLower(s)

\* bytes.Index: 0-based offset of the first occurrence of sep in s, or -1
bytesIndex(s, sep) ==
    LET hits == {i \in 0..(Len(s) - Len(sep)) :
                    SubSeq(s, i + 1, i + Len(sep)) = sep}
    IN  IF hits = {} THEN -1
        ELSE CHOOSE i \in hits : \A j \in hits : i <= j

\* bytes.Contains / strings.Contains
bytesContainsPrefixOnly(s, sep) ==
    Len(sep) <= Len(s) /\ SubSeq(s, 1, Len(sep)) = sep
bytesContains(s, sep) ==
    \E i \in 0..(Len(s) - Len(sep)) : SubSeq(s, i + 1, i + Len(sep)) = sep

\* bytes.HasPrefix
bytesHasPrefix(s, prefix) ==
    Len(prefix) <= Len(s) /\ SubSeq(s, 1, Len(prefix)) = prefix

\* the cutset " \t\r\n" of sniffHTML, and the ASCII white space of
\* strings.TrimSpace
SniffSpace == {" ", "\t", "\r", "\n"}
AsciiSpace == {" ", "\t", "\r", "\n", "\f"}

\* bytes.TrimLeft(s, cutset)
RECURSIVE bytesTrimLeft(_, _)
bytesTrimLeft(s, cutset) ==
    IF s # <<>> /\ Head(s) \in cutset THEN bytesTrimLeft(Tail(s), cutset) ELSE s

RECURSIVE trimRight(_, _)
trimRight(s, cutset) ==
    IF s # <<>> /\ s[Len(s)] \in cutset
    THEN trimRight(SubSeq(s, 1, Len(s) - 1), cutset)
    ELSE s

\* strings.TrimSpace
TrimSpace(s) == trimRight(bytesTrimLeft(s, AsciiSpace), AsciiSpace)

----------------------------------------------------------------------------
(* http.Header: a map from key to list of values (no values = absent).     *)
(* Get, Set, Add and Del put the key they are given into canonical form;   *)
(* a key assigned to the map directly is kept as spelled.                  *)

\* header names in canonical form
HeaderNames ==
    {"Content-Type", "Content-Encoding", "Content-Length", "Etag", "X-Other"}

\* a key that is not in canonical form
RawETag == "ETag"

MapKeys == HeaderNames \cup {RawETag}

\* textproto.CanonicalMIMEHeaderKey
CanonicalHeaderKey(k) == IF k = RawETag THEN "Etag" ELSE k

\* make(http.Header)
NoHeaders == [k \in MapKeys |-> <<>>]

\* Header.Get: the first value, or "" when absent
HeaderGet(hd, k) ==
    LET c == CanonicalHeaderKey(k)
    IN  IF hd[c] = <<>> THEN <<>> ELSE hd[c][1]

\* Header.Set
HeaderSet(hd, k, v) == [hd EXCEPT ![CanonicalHeaderKey(k)] = <<v>>]

\* Header.Del
HeaderDel(hd, k) == [hd EXCEPT ![CanonicalHeaderKey(k)] = <<>>]

\* for k := range dst { dst.Del(k) }: each key present deletes the entry
\* of its canonical form
delEach(dst) ==
    [x \in MapKeys |->
        IF \E k \in MapKeys : dst[k] # <<>> /\ CanonicalHeaderKey(k) = x
        THEN <<>> ELSE dst[x]]

\* for k, vv := range src { for _, v := range vv { dst.Add(k, v) } }: the
\* values of k go under its canonical form (the order in which a canonical
\* key and its raw spelling are visited is not fixed by Go; the handlers
\* modelled never fill both)
addEach(dst, src) ==
    [x \in MapKeys |->
        LET from(k) == IF CanonicalHeaderKey(k) = x THEN src[k] ELSE <<>>
        IN  dst[x] \o from(x) \o (IF x = RawETag THEN <<>> ELSE from(RawETag))]

----------------------------------------------------------------------------
(* Sniffer                                                                 *)

candidateNo == "candidateNo"
candidateMaybe == "candidateMaybe"
candidateYes == "candidateYes"

undecided == "undecided"
passthrough == "passthrough"
injecting == "injecting"

StatusOK == 200
SniffWindow == 2048
DefaultLookahead == 65536

TextHTML == <<"t", "e", "x", "t", "/", "h", "t", "m", "l">>
AppXHTML ==
    <<"a", "p", "p", "l", "i", "c", "a", "t", "i", "o", "n", "/",
      "x", "h", "t", "m", "l", "+", "x", "m", "l">>
DoctypeHTML ==
    <<"<", "!", "d", "o", "c", "t", "y", "p", "e", " ", "h", "t", "m", "l">>
HtmlOpen == <<"<", "h", "t", "m", "l">>
HeadOpen == <<"<", "h", "e", "a", "d">>
BodyOpen == <<"<", "b", "o", "d", "y">>
XmlDecl == <<"<", "?", "x", "m", "l">>
BodyClose == <<"<", "/", "b", "o", "d", "y", ">">>

\* the 2xx-5xx test applied whatever injectOnNon2xx says
isStatusEligibleWide(sw) == sw.status >= 200 /\ sw.status < 600

isStatusEligible(sw) ==
    IF sw.injectOnNon2xx
    THEN sw.status >= 200 /\ sw.status < 600
    ELSE sw.status >= 200 /\ sw.status < 300

\* the sniffer that takes a sample without a marker for HTML
sniffHTMLEager(sample) ==
    IF Len(sample) = 0 THEN candidateMaybe
    ELSE
      LET lower == bytesTrimLeft(ToLower(sample), SniffSpace)
      IN  IF bytesHasPrefix(lower, XmlDecl) THEN candidateNo ELSE candidateYes

sniffHTML(sample) ==
    IF Len(sample) = 0 THEN candidateMaybe
    ELSE
      LET cut == IF Len(sample) > SniffWindow THEN Take(sample, SniffWindow)
                 ELSE sample
          lower == bytesTrimLeft(ToLower(cut), SniffSpace)
      IN  IF bytesHasPrefix(lower, DoctypeHTML) THEN candidateYes
          ELSE IF bytesHasPrefix(lower, HtmlOpen) THEN candidateYes
          ELSE IF bytesContains(lower, HeadOpen) \/ bytesContains(lower, BodyOpen)
               THEN candidateYes
          ELSE IF bytesHasPrefix(lower, XmlDecl) THEN candidateNo
          ELSE candidateMaybe

\* the classification without the declared content type
htmlCandidateIgnoringType(sw, sample) ==
    IF ~isStatusEligible(sw) THEN candidateNo ELSE sniffHTML(sample)

\* the classification that looks at the content type before the status
htmlCandidateTypeFirst(sw, sample) ==
    LET ct == ToLower(HeaderGet(sw.header, "Content-Type"))
    IN  IF bytesContains(ct, TextHTML) \/ bytesContains(ct, AppXHTML)
        THEN candidateYes
        ELSE IF ~isStatusEligible(sw) THEN candidateNo
        ELSE IF TrimSpace(ct) # <<>> THEN candidateNo
        ELSE sniffHTML(sample)

htmlCandidateFromHeadersAndSniff(sw, sample) ==
    IF ~isStatusEligible(sw) THEN candidateNo
    ELSE
      LET ct == ToLower(HeaderGet(sw.header, "Content-Type"))
      IN  IF bytesContains(ct, TextHTML) \/ bytesContains(ct, AppXHTML)
          THEN candidateYes
          ELSE IF TrimSpace(ct) # <<>> THEN candidateNo
          ELSE sniffHTML(sample)

----------------------------------------------------------------------------
(* Splice engine                                                           *)

\* `<script defer src="` + scriptSrc + `" data-website-id="` + websiteID
\*   + `"></script>`
Snippet(scriptSrc, websiteID) ==
    <<"<", "s", "c", "r", "i", "p", "t", " ", "d", "e", "f", "e", "r", " ",
      "s", "r", "c", "=", "\"">>
        \o scriptSrc
        \o <<"\"", " ", "d", "a", "t", "a", "-", "w", "e", "b", "s", "i", "t",
             "e", "-", "i", "d", "=", "\"">>
        \o websiteID
        \o <<"\"", ">", "<", "/", "s", "c", "r", "i", "p", "t", ">">>

\* out = prefix[:idx] + snippet + prefix[idx:]; prefix[idx:] panics (slice
\* bounds out of range) when idx > len(prefix)
spliceAt(prefix, snippet, idx) ==
    IF idx > Len(prefix)
    THEN [ok |-> FALSE, updated |-> <<>>, panic |-> TRUE]
    ELSE [ok |-> TRUE,
          updated |-> Take(prefix, idx) \o snippet \o Drop(prefix, idx),
          panic |-> FALSE]

NotInjected == [ok |-> FALSE, updated |-> <<>>, panic |-> FALSE]

tryInject(prefix, scriptSrc, websiteID, injectBefore, alsoMatchBodyClose) ==
    IF Len(prefix) = 0 THEN NotInjected
    ELSE IF bytesContains(prefix, scriptSrc) THEN NotInjected
    ELSE
      LET snippet == Snippet(scriptSrc, websiteID)
          lower == ToLower(prefix)
          target == ToLower(injectBefore)
          idx == bytesIndex(lower, target)
          idx2 == bytesIndex(lower, BodyClose)
      IN  IF idx >= 0 THEN spliceAt(prefix, snippet, idx)
          ELSE IF alsoMatchBodyClose /\ idx2 >= 0
               THEN spliceAt(prefix, snippet, idx2)
          ELSE NotInjected

----------------------------------------------------------------------------
(* The real sink (orig http.ResponseWriter).  A pair m = [w, sink] is the  *)
(* streamWriter together with the sink it wraps.                           *)

\* orig.WriteHeader: the first call commits the status and a snapshot of
\* the sink's header map; whCalls counts the calls received
origWriteHeader(s, statusCode) ==
    IF s.wroteHeader
    THEN [s EXCEPT !.whCalls = @ + 1]
    ELSE [s EXCEPT !.wroteHeader = TRUE, !.status = statusCode,
                   !.sent = s.hdr, !.whCalls = @ + 1]

\* orig.Write: a failing sink writes nothing and returns an error (refused
\* records that it did); a write before any WriteHeader commits status 200
\* implicitly (bodyFirst records it)
origWrite(s, p) ==
    IF s.failing
    THEN [sink |-> [s EXCEPT !.refused = TRUE], n |-> 0, err |-> TRUE]
    ELSE
      LET s1 == IF s.wroteHeader THEN s
                ELSE [s EXCEPT !.wroteHeader = TRUE, !.status = StatusOK,
                               !.sent = s.hdr, !.bodyFirst = TRUE]
      IN  [sink |-> [s1 EXCEPT !.body = @ \o p], n |-> Len(p), err |-> FALSE]

----------------------------------------------------------------------------
(* streamWriter                                                            *)

\* the construction that takes the limit as configured
newStreamWriterUnfloored(limit, scriptSrc, websiteID, injectBefore, also, non2xx) ==
    [header |-> NoHeaders,
     status |-> StatusOK,
     state |-> undecided,
     wroteHeader |-> FALSE,
     headersFlushed |-> FALSE,
     lookaheadLimit |-> limit,
     buf |-> <<>>,
     scriptSrc |-> scriptSrc,
     websiteID |-> websiteID,
     injectBefore |-> injectBefore,
     alsoMatchBodyClose |-> also,
     injectOnNon2xx |-> non2xx]

newStreamWriter(limit, scriptSrc, websiteID, injectBefore, also, non2xx) ==
    [header |-> NoHeaders,
     status |-> StatusOK,
     state |-> undecided,
     wroteHeader |-> FALSE,
     headersFlushed |-> FALSE,
     lookaheadLimit |-> IF limit <= 0 THEN DefaultLookahead ELSE limit,
     buf |-> <<>>,
     scriptSrc |-> scriptSrc,
     websiteID |-> websiteID,
     injectBefore |-> injectBefore,
     alsoMatchBodyClose |-> also,
     injectOnNon2xx |-> non2xx]

\* WriteHeader that takes every call
swWriteHeaderOverwriting(sw, statusCode) ==
    [sw EXCEPT !.wroteHeader = TRUE, !.status = statusCode]

\* streamWriter.WriteHeader
swWriteHeader(sw, statusCode) ==
    IF sw.wroteHeader THEN sw
    ELSE [sw EXCEPT !.wroteHeader = TRUE, !.status = statusCode]

\* w.header.Del("Content-Length"); w.header.Del("ETag")
prepareHeadersForInjection(sw) ==
    [sw EXCEPT !.header = HeaderDel(HeaderDel(@, "Content-Length"), "ETag")]

\* the sink's header set emptied and not refilled
replaceHeadersEmptying(dst, src) == delEach(dst)

\* dst := w.orig.Header(), emptied and refilled from w.header
replaceHeaders(dst, src) == addEach(delEach(dst), src)

\* the header flush without its headersFlushed guard
flushHeadersUnguarded(m) ==
    [w |-> [m.w EXCEPT !.headersFlushed = TRUE],
     sink |-> origWriteHeader(
                  [m.sink EXCEPT !.hdr = replaceHeaders(@, m.w.header)],
                  m.w.status)]

\* every key of orig.Header() is deleted, every captured value is added,
\* then orig.WriteHeader(w.status); a second call does nothing
flushHeaders(m) ==
    IF m.w.headersFlushed THEN m
    ELSE [w |-> [m.w EXCEPT !.headersFlushed = TRUE],
          sink |-> origWriteHeader(
                       [m.sink EXCEPT !.hdr = replaceHeaders(@, m.w.header)],
                       m.w.status)]

\* the buffer reset without the write
flushBufferDropping(m) == [m EXCEPT !.w.buf = <<>>]

\* the buffered bytes go to the sink (the error of orig.Write is discarded)
\* and the buffer is reset
flushBuffer(m) ==
    IF Len(m.w.buf) = 0 THEN m
    ELSE [w |-> [m.w EXCEPT !.buf = <<>>],
          sink |-> origWrite(m.sink, m.w.buf).sink]

\* w.state = passthrough; w.flushHeaders(); w.flushBuffer()
resolvePassthrough(m) ==
    flushBuffer(flushHeaders([m EXCEPT !.w.state = passthrough]))

\* the result of a Write call: the machine after it, the returned count and
\* error, whether the call panicked, whether it spliced the snippet in, and
\* the largest number of bytes the buffer held during the call
Ret(m, n, err) ==
    [w |-> m.w, sink |-> m.sink, n |-> n, err |-> err, panic |-> FALSE,
     injected |-> FALSE, peak |-> Len(m.w.buf)]

\* the forwarding of a decided stream, with the decision set to Passthrough
forwardAsPassthrough(m, p) ==
    LET r == origWrite(m.sink, p)
    IN  Ret([m EXCEPT !.sink = r.sink, !.w.state = passthrough], r.n, r.err)

\* return w.orig.Write(p)
forward(m, p) ==
    LET r == origWrite(m.sink, p)
    IN  Ret([m EXCEPT !.sink = r.sink], r.n, r.err)

\* a fall-back that keeps what was buffered and leaves the decision open
passRestUnresolved(m, p, consumed) == Ret(m, Len(p), FALSE)

\* the four fall-backs of Write after the buffer was classified:
\* passthrough, then the part of p that was not buffered
passRest(m, p, consumed) ==
    LET m1 == resolvePassthrough(m)
    IN  IF consumed < Len(p) THEN forward(m1, Drop(p, consumed))
        ELSE Ret(m1, Len(p), FALSE)

\* the splice without the transition to Injecting
injectNowStaysUndecided(m, p, consumed, updated) ==
    LET m1 == flushHeaders([m EXCEPT !.w = prepareHeadersForInjection(m.w)])
        r1 == origWrite(m1.sink, updated)
        m2 == [m1 EXCEPT !.sink = r1.sink, !.w.buf = <<>>]
        r2 == origWrite(m2.sink, Drop(p, consumed))
    IN  [Ret([m2 EXCEPT !.sink = r2.sink], Len(p), FALSE)
         EXCEPT !.injected = TRUE]

\* the splice succeeded: Injecting, headers, the spliced buffer, then the
\* part of p that was not buffered
injectNow(m, p, consumed, updated) ==
    LET m1 == flushHeaders([m EXCEPT !.w = prepareHeadersForInjection(
                                         [m.w EXCEPT !.state = injecting])])
        r1 == origWrite(m1.sink, updated)
        m2 == [m1 EXCEPT !.sink = r1.sink]
        r2 == origWrite(m2.sink, Drop(p, consumed))
        m3 == [m2 EXCEPT !.sink = r2.sink]
        out == IF r1.err THEN Ret(m2, Len(p), TRUE)
               ELSE IF consumed < Len(p)
                    THEN IF r2.err THEN Ret(m3, Len(p), TRUE)
                         ELSE Ret([m3 EXCEPT !.w.buf = <<>>], Len(p), FALSE)
               ELSE Ret([m2 EXCEPT !.w.buf = <<>>], Len(p), FALSE)
    IN  [out EXCEPT !.injected = TRUE]

\* the whole chunk, whatever room is left
bufferShareUnbounded(remaining, n) == n

\* nothing of the chunk
bufferShareNone(remaining, n) == 0

\* how many bytes of a chunk of n bytes go into the buffer (consumed)
bufferShare(remaining, n) ==
    IF remaining > 0 THEN (IF n <= remaining THEN n ELSE remaining) ELSE 0

\* the chunk is buffered up to the limit and classified
bufferAndDecide(m, p) ==
    LET remaining == m.w.lookaheadLimit - Len(m.w.buf)
        consumed == bufferShare(remaining, Len(p))
        m1 == [m EXCEPT !.w.buf = @ \o Take(p, consumed)]
        bufBytes == m1.w.buf
        cand == htmlCandidateFromHeadersAndSniff(m1.w, bufBytes)
        full == Len(m1.w.buf) >= m1.w.lookaheadLimit
        inj == tryInject(bufBytes, m1.w.scriptSrc, m1.w.websiteID,
                         m1.w.injectBefore, m1.w.alsoMatchBodyClose)
        keep == Ret(m1, Len(p), FALSE)
        out ==
            IF remaining <= 0 /\ m.w.state = undecided
            THEN forward(resolvePassthrough(m), p)
            ELSE IF cand = candidateNo THEN passRest(m1, p, consumed)
            ELSE IF bytesContains(bufBytes, m1.w.scriptSrc)
                 THEN passRest(m1, p, consumed)
            ELSE IF cand = candidateMaybe
                 THEN (IF full THEN passRest(m1, p, consumed) ELSE keep)
            ELSE IF inj.panic THEN [keep EXCEPT !.panic = TRUE]
            ELSE IF inj.ok THEN injectNow(m1, p, consumed, inj.updated)
            ELSE IF full THEN passRest(m1, p, consumed)
            ELSE keep
    IN  [out EXCEPT !.peak = Len(bufBytes)]

\* Write without the Content-Encoding check
swWriteIgnoringEncoding(m0, p) ==
    LET m == IF ~m0.w.wroteHeader
             THEN [m0 EXCEPT !.w = swWriteHeader(m0.w, StatusOK)]
             ELSE m0
    IN  IF m.w.state = passthrough THEN forward(flushHeaders(m), p)
        ELSE IF m.w.state = injecting THEN forward(flushHeaders(m), p)
        ELSE IF Len(p) = 0 THEN Ret(m, 0, FALSE)
        ELSE bufferAndDecide(m, p)

\* Write that buffers and classifies again on a decided stream
swWriteReclassifying(m0, p) ==
    LET m == IF ~m0.w.wroteHeader
             THEN [m0 EXCEPT !.w = swWriteHeader(m0.w, StatusOK)]
             ELSE m0
    IN  IF Len(p) = 0 THEN Ret(m, 0, FALSE)
        ELSE IF HeaderGet(m.w.header, "Content-Encoding") # <<>>
             THEN forward(resolvePassthrough(m), p)
        ELSE bufferAndDecide(flushHeaders(m), p)

\* streamWriter.Write
swWrite(m0, p) ==
    LET m == IF ~m0.w.wroteHeader
             THEN [m0 EXCEPT !.w = swWriteHeader(m0.w, StatusOK)]
             ELSE m0
    IN  IF m.w.state = passthrough THEN forward(flushHeaders(m), p)
        ELSE IF m.w.state = injecting THEN forward(flushHeaders(m), p)
        ELSE IF Len(p) = 0 THEN Ret(m, 0, FALSE)
        ELSE IF HeaderGet(m.w.header, "Content-Encoding") # <<>>
             THEN forward(resolvePassthrough(m), p)
        ELSE bufferAndDecide(m, p)

\* bytes or headers are still held back from the sink
Held(m) == Len(m.w.buf) > 0 \/ ~m.w.headersFlushed

\* finish that leaves the decision as it is
swFinishIdle(m) == m

\* streamWriter.finish
swFinish(m) ==
    IF m.w.state = undecided THEN resolvePassthrough(m) ELSE m

\* Flush that hands over to the sink without resolving first
swFlushUnresolved(m) ==
    IF m.sink.flusher THEN [m EXCEPT !.sink.ctlEarly = @ \/ Held(m)] ELSE m

\* streamWriter.Flush: resolve, then orig.Flush() when the sink is an
\* http.Flusher; ctlEarly records a stream-control call that reached the
\* sink while something was held back
swFlush(m) ==
    LET m1 == IF m.w.state = undecided THEN resolvePassthrough(m) ELSE m
    IN  IF m1.sink.flusher THEN [m1 EXCEPT !.sink.ctlEarly = @ \/ Held(m1)]
        ELSE m1

\* Hijack that resolves before it asks whether the sink is an http.Hijacker
swHijackResolving(m) ==
    LET m1 == IF m.w.state = undecided THEN resolvePassthrough(m) ELSE m
    IN  IF ~m.sink.hijacker THEN m1
        ELSE [m1 EXCEPT !.sink.ctlEarly = @ \/ Held(m1)]

\* streamWriter.Hijack: http.ErrNotSupported, with nothing done, when the
\* sink is no http.Hijacker; else resolve, then orig.Hijack()
swHijack(m) ==
    IF ~m.sink.hijacker THEN m
    ELSE
      LET m1 == IF m.w.state = undecided THEN resolvePassthrough(m) ELSE m
      IN  [m1 EXCEPT !.sink.ctlEarly = @ \/ Held(m1)]

----------------------------------------------------------------------------
(* Inputs                                                                  *)

\* the largest number of tokens a response body is made of
MaxTok == 2

HeadClose == <<"<", "/", "h", "e", "a", "d", ">">>
HeadCloseUpper == <<"<", "/", "H", "E", "A", "D", ">">>
HtmlTag == <<"<", "h", "t", "m", "l", ">">>
Latin1Pair == <<"xE9", "xE9">>
Latin1Word == <<"xE9", "xE9", "xE9", "xE9">>
ScriptSrc == <<"u", ".", "j", "s">>
WebsiteID == <<"a", "b", "c">>

Tokens ==
    {HeadCloseUpper, BodyClose, HtmlTag, Latin1Pair, Latin1Word, ScriptSrc,
     <<"x">>}

RECURSIVE TokenStrings(_)
TokenStrings(n) ==
    IF n = 0 THEN {<<>>}
    ELSE LET shorter == TokenStrings(n - 1)
         IN  shorter \cup {s \o t : s \in shorter, t \in Tokens}

Bodies == TokenStrings(MaxTok)

HTMLType == <<"T", "e", "x", "t", "/", "H", "T", "M", "L">>

Gzip == <<"g", "z", "i", "p">>

HandlerHeaders ==
    {<<"Content-Type", v>> :
        v \in {HTMLType,
               <<"a", "p", "p", "l", "i", "c", "a", "t", "i", "o", "n", "/",
                 "j", "s", "o", "n">>,
               <<" ">>}}
        \cup {<<"Content-Encoding", Gzip>>}

LookaheadLimits == {8, 32}

NewSink ==
    [hdr |-> NoHeaders, wroteHeader |-> FALSE, status |-> 0,
     sent |-> NoHeaders, body |-> <<>>, whCalls |-> 0, bodyFirst |-> FALSE,
     failing |-> FALSE, refused |-> FALSE, ctlEarly |-> FALSE,
     flusher |-> TRUE, hijacker |-> TRUE]

----------------------------------------------------------------------------
(* One intercepted request: ServeHTTP has built the streamWriter and the   *)
(* upstream handler drives it.  h is the handler: the bytes it still has   *)
(* to write (todo), those it has passed to Write (written) and where it    *)
(* stands; g records what the last operation did.                          *)

\* history of the response: the number of splices, the operation that
\* resolved the decision, whether a non-empty chunk was written after the
\* decision had become Injecting, and the status the handler has declared
\* (0 = none yet): that of its first WriteHeader, or 200 when it wrote or
\* flushed first
\* overLimit records that the buffer has held more than lookaheadLimit
\* bytes during some Write, unreported that a Write during which the sink
\* refused bytes has returned a nil error, notSupported that a Hijack has
\* returned http.ErrNotSupported
NoHistory ==
    [injections |-> 0, resolvedBy |-> "none", afterInject |-> FALSE,
     declared |-> 0, overLimit |-> FALSE, unreported |-> FALSE,
     notSupported |-> FALSE]

Declare(statusCode) == IF g.declared = 0 THEN statusCode ELSE g.declared

Resolved(by) ==
    IF w.state = undecided /\ w'.state # undecided THEN by ELSE g.resolvedBy

InitWith(limits) ==
    /\ \E lim \in limits, also \in BOOLEAN :
          w = newStreamWriter(lim, ScriptSrc, WebsiteID, HeadClose, also,
                              FALSE)
    /\ sink = NewSink
    /\ \E b \in Bodies :
          h = [pc |-> "headers", todo |-> b, written |-> <<>>, run |-> 1]
    /\ g = NoHistory

Init == InitWith(LookaheadLimits)

Running == h.pc \in {"headers", "body"}

\* the handler sets a response header through Header() before it starts
\* the response
SetHeader(k, v) ==
    /\ h.pc = "headers"
    /\ w' = [w EXCEPT !.header = HeaderSet(@, k, v)]
    /\ UNCHANGED <<sink, h, g>>

WriteHeader(statusCode) ==
    /\ Running
    /\ w' = swWriteHeader(w, statusCode)
    /\ h' = [h EXCEPT !.pc = "body"]
    /\ g' = [g EXCEPT !.declared = Declare(statusCode)]
    /\ UNCHANGED sink

\* the handler writes the next n bytes of its body as one chunk
Write(n) ==
    /\ Running
    /\ n <= Len(h.todo)
    /\ LET p == Take(h.todo, n)
           r == swWrite([w |-> w, sink |-> [sink EXCEPT !.refused = FALSE]],
                        p)
       IN  /\ w' = r.w
           /\ sink' = [r.sink EXCEPT !.refused = @ \/ sink.refused]
           /\ h' = [h EXCEPT !.pc = IF r.panic THEN "panicked" ELSE "body",
                              !.todo = Drop(h.todo, n),
                              !.written = h.written \o p]
           /\ g' = [injections |->
                        g.injections + (IF r.injected THEN 1 ELSE 0),
                    resolvedBy |-> Resolved("Write"),
                    afterInject |->
                        g.afterInject \/ (w.state = injecting /\ n > 0),
                    declared |-> Declare(StatusOK),
                    overLimit |->
                        g.overLimit \/ r.peak > w.lookaheadLimit,
                    unreported |->
                        g.unreported \/ (r.sink.refused /\ ~r.err),
                    notSupported |-> g.notSupported]

Flush ==
    /\ Running
    /\ LET m == swFlush([w |-> w, sink |-> sink])
       IN  w' = m.w /\ sink' = m.sink
    /\ h' = [h EXCEPT !.pc = "body"]
    /\ g' = [g EXCEPT !.resolvedBy = Resolved("Flush"),
                       !.declared = Declare(StatusOK)]

\* the handler asks for the connection: when it gets it, it writes no more
\* through w; when the sink does not support it, it gets an error and goes on
Hijack ==
    /\ Running
    /\ LET m == swHijack([w |-> w, sink |-> sink])
       IN  w' = m.w /\ sink' = m.sink
    /\ h' = [h EXCEPT !.pc = IF sink.hijacker THEN "hijacked" ELSE @]
    /\ g' = [g EXCEPT !.resolvedBy = Resolved("Hijack"),
                       !.notSupported = @ \/ ~sink.hijacker]

\* the handler returns and ServeHTTP calls sw.finish()
Finish ==
    /\ \/ Running /\ h.todo = <<>>
       \/ h.pc = "hijacked"
    /\ LET m == swFinish([w |-> w, sink |-> sink])
       IN  w' = m.w /\ sink' = m.sink
    /\ h' = [h EXCEPT !.pc = "done"]
    /\ g' = [g EXCEPT !.resolvedBy = Resolved("finish"),
                       !.declared = IF h.pc = "hijacked" THEN @
                                    ELSE Declare(StatusOK)]

Next ==
    \/ \E kv \in HandlerHeaders : SetHeader(kv[1], kv[2])
    \/ \E s \in {200, 404} : WriteHeader(s)
    \/ \E n \in 0..Len(h.todo) : Write(n)
    \/ Flush
    \/ Hijack
    \/ Finish

Spec == Init /\ [][Next]_vars

\* The finished output of an injected response goes through a fresh
\* streamWriter with the same configuration (a second instance of the
\* middleware in the chain): its handler replays the emitted headers and
\* status and then writes the emitted body in chunks of its choice.
Refeed ==
    /\ h.pc = "done"
    /\ h.run = 1
    /\ g.injections = 1
    /\ w' = swWriteHeader(
                [newStreamWriter(w.lookaheadLimit, w.scriptSrc, w.websiteID,
                                 w.injectBefore, w.alsoMatchBodyClose,
                                 w.injectOnNon2xx)
                 EXCEPT !.header = sink.sent],
                sink.status)
    /\ sink' = NewSink
    /\ h' = [pc |-> "body", todo |-> sink.body, written |-> <<>>, run |-> 2]
    /\ g' = [NoHistory EXCEPT !.declared = sink.status]

\* both runs are driven by Write calls alone, the first one on a response
\* that may declare itself as HTML
NextIdem ==
    \/ SetHeader("Content-Type", HTMLType)
    \/ \E n \in 0..Len(h.todo) : Write(n)
    \/ Finish
    \/ Refeed

\* look-ahead limits below and above the length of a snippet
SpecIdem == InitWith({16, 128}) /\ [][NextIdem]_vars

----------------------------------------------------------------------------
(* Responses of every status class, with and without injectOnNon2xx        *)

\* the bodies of at most one token, and a two-token document
ShortBodies == TokenStrings(1) \cup {HtmlTag \o HeadCloseUpper}

InitOver(limits, alsos, non2xxs, bodies) ==
    /\ \E lim \in limits, also \in alsos, non2xx \in non2xxs :
          w = newStreamWriter(lim, ScriptSrc, WebsiteID, HeadClose, also,
                              non2xx)
    /\ sink = NewSink
    /\ \E b \in bodies :
          h = [pc |-> "headers", todo |-> b, written |-> <<>>, run |-> 1]
    /\ g = NoHistory

\* final statuses on both sides of each limit of isStatusEligible (101 is
\* the one 1xx status that net/http treats as final)
StatusCodes == {101, 200, 299, 300, 404, 599, 600}

NextStatus ==
    \/ SetHeader("Content-Type", HTMLType)
    \/ \E s \in StatusCodes : WriteHeader(s)
    \/ \E n \in 0..Len(h.todo) : Write(n)
    \/ Flush
    \/ Finish

SpecStatus ==
    InitOver(LookaheadLimits, {TRUE}, BOOLEAN, ShortBodies)
        /\ [][NextStatus]_vars

----------------------------------------------------------------------------
(* Responses with validators and a length, on sinks that hold headers of   *)
(* their own before the response starts                                    *)

\* the handler assigns to the map that Header() returns, w.header[k] = [v],
\* which keeps the key as spelled
AssignHeader(k, v) ==
    /\ h.pc = "headers"
    /\ w' = [w EXCEPT !.header[k] = <<v>>]
    /\ UNCHANGED <<sink, h, g>>

\* the handler sets a header after it has started the response
LateHeader(k, v) ==
    /\ h.pc = "body"
    /\ HeaderGet(w.header, k) # v
    /\ w' = [w EXCEPT !.header = HeaderSet(@, k, v)]
    /\ UNCHANGED <<sink, h, g>>

InitHdr ==
    /\ \E lim \in LookaheadLimits :
          w = newStreamWriter(lim, ScriptSrc, WebsiteID, HeadClose, FALSE,
                              FALSE)
    \* the header map of the sink when ServeHTTP is entered: empty, a
    \* canonical key set by an outer handler, a key assigned as spelled
    /\ \E pre \in {NoHeaders,
                    HeaderSet(NoHeaders, "X-Other", <<"o">>),
                    [NoHeaders EXCEPT ![RawETag] = << <<"o">> >>]} :
          sink = [NewSink EXCEPT !.hdr = pre]
    /\ \E b \in ShortBodies :
          h = [pc |-> "headers", todo |-> b, written |-> <<>>, run |-> 1]
    /\ g = NoHistory

NextHdr ==
    \/ SetHeader("Content-Type", HTMLType)
    \/ SetHeader("Content-Length", <<"9">>)
    \/ SetHeader("X-Other", <<"v">>)
    \/ w.header[RawETag] = <<>> /\ SetHeader("ETag", <<"e">>)
    \/ w.header["Etag"] = <<>> /\ AssignHeader(RawETag, <<"e">>)
    \/ LateHeader("X-Other", <<"l">>)
    \/ \E n \in 0..Len(h.todo) : Write(n)
    \/ Flush
    \/ Finish

SpecHdr == InitHdr /\ [][NextHdr]_vars

\* the same responses with a status declared by the handler
NextDeclared ==
    \/ NextHdr
    \/ \E s \in {200, 404} : WriteHeader(s)

SpecDeclared == InitHdr /\ [][NextDeclared]_vars

----------------------------------------------------------------------------
(* Stream control on sinks that do or do not implement http.Flusher and    *)
(* http.Hijacker                                                           *)

InitCtl ==
    /\ \E lim \in LookaheadLimits :
          w = newStreamWriter(lim, ScriptSrc, WebsiteID, HeadClose, TRUE,
                              FALSE)
    /\ \E f \in BOOLEAN, hj \in BOOLEAN :
          sink = [NewSink EXCEPT !.flusher = f, !.hijacker = hj]
    /\ \E b \in ShortBodies :
          h = [pc |-> "headers", todo |-> b, written |-> <<>>, run |-> 1]
    /\ g = NoHistory

NextCtl ==
    \/ SetHeader("Content-Type", HTMLType)
    \/ \E n \in 0..Len(h.todo) : Write(n)
    \/ Flush
    \/ Hijack
    \/ Finish

SpecCtl == InitCtl /\ [][NextCtl]_vars

----------------------------------------------------------------------------
(* A sink whose writes start to fail (the client has gone away)            *)

SinkBreaks ==
    /\ Running
    /\ ~sink.failing
    /\ sink' = [sink EXCEPT !.failing = TRUE]
    /\ UNCHANGED <<w, h, g>>

NextFail ==
    \/ SetHeader("Content-Type", HTMLType)
    \/ \E n \in 0..Len(h.todo) : Write(n)
    \/ Flush
    \/ Finish
    \/ SinkBreaks

SpecFail ==
    InitOver(LookaheadLimits, {TRUE}, {FALSE}, ShortBodies)
        /\ [][NextFail]_vars

----------------------------------------------------------------------------
(* Middleware.ServeHTTP from the arrival of the request: the request is    *)
(* either handed to the next handler with the writer it came with, or a    *)
(* streamWriter is built for it.  Here h also holds the configuration      *)
(* (cfg), the request object (req), the request as it arrived (arrived)    *)
(* and what the next handler was given (given).                            *)

\* a request header holds the values of its header lines, in order
ReqHeaderNames ==
    {"Connection", "Upgrade", "Accept-Encoding", "X-Analytics-Website-Id"}

\* req.Header.Get: the first value, or "" when absent
ReqGet(req, k) ==
    IF req.header[k] = <<>> THEN <<>> ELSE req.header[k][1]

\* New: the Middleware built from a Config
New(cfg) ==
    [scriptSrc |-> cfg.ScriptSrc,
     websiteID |-> TrimSpace(cfg.WebsiteID),
     defaultWebsiteID |-> TrimSpace(cfg.DefaultWebsiteID),
     websiteIDHeader |-> cfg.WebsiteIDHeader,
     maxLookaheadBytes |-> cfg.MaxLookaheadBytes,
     injectBefore |-> cfg.InjectBefore,
     alsoMatchBodyClose |-> cfg.AlsoMatchBodyClose,
     stripAcceptEncoding |-> cfg.StripAcceptEncoding,
     injectOnNon2xx |-> cfg.InjectOnNon2xx]

UpgradeWord == <<"u", "p", "g", "r", "a", "d", "e">>

isUpgradeRequest(r) ==
    LET conn == ReqGet(r, "Connection")
        upg == ReqGet(r, "Upgrade")
    IN  IF upg = <<>> THEN FALSE
        ELSE bytesContains(ToLower(conn), UpgradeWord)

\* the configured default alone
websiteIDFromDefault(m, req) == TrimSpace(m.defaultWebsiteID)

\* the identifier ServeHTTP settles on ("" = none)
websiteIDFor(m, req) ==
    LET a == TrimSpace(m.websiteID)
        b == IF a = <<>> THEN TrimSpace(ReqGet(req, m.websiteIDHeader)) ELSE a
    IN  IF b = <<>> THEN TrimSpace(m.defaultWebsiteID) ELSE b

\* req.Clone with Accept-Encoding deleted from the cloned header
withoutAcceptEncoding(req) == [req EXCEPT !.header["Accept-Encoding"] = <<>>]

\* the request object is stripped itself and handed on
reqStrippedInPlace(m, req) ==
    IF m.stripAcceptEncoding
    THEN [req |-> withoutAcceptEncoding(req), same |-> TRUE,
          orig |-> withoutAcceptEncoding(req)]
    ELSE [req |-> req, same |-> TRUE, orig |-> req]

\* what the next handler is given (req), whether that is the request object
\* that came in (same), and that object afterwards (orig)
reqToForward(m, req) ==
    IF m.stripAcceptEncoding
    THEN [req |-> withoutAcceptEncoding(req), same |-> FALSE, orig |-> req]
    ELSE [req |-> req, same |-> TRUE, orig |-> req]

\* no streamWriter has been built
NoWriter == [state |-> "unbuilt"]

\* ServeHTTP up to its call of m.next.ServeHTTP
Enter ==
    /\ h.pc = "arrived"
    /\ LET m == New(h.cfg)
           req == h.req
           websiteID == websiteIDFor(m, req)
           fwd == reqToForward(m, req)
       IN  IF req.method # "GET" \/ isUpgradeRequest(req) \/ websiteID = <<>>
           THEN /\ h' = [h EXCEPT !.pc = "direct",
                                  !.given = [writer |-> "rw", req |-> req,
                                             same |-> TRUE]]
                /\ w' = w
           ELSE /\ h' = [h EXCEPT !.pc = "headers",
                                  !.req = fwd.orig,
                                  !.given = [writer |-> "sw",
                                             req |-> fwd.req,
                                             same |-> fwd.same]]
                /\ w' = newStreamWriter(m.maxLookaheadBytes, m.scriptSrc,
                                        websiteID, m.injectBefore,
                                        m.alsoMatchBodyClose,
                                        m.injectOnNon2xx)
    /\ UNCHANGED <<sink, g>>

\* the next handler, given rw itself, sets a header on it
DirectSetHeader(k, v) ==
    /\ h.pc = "direct"
    /\ ~sink.wroteHeader
    /\ HeaderGet(sink.hdr, k) # v
    /\ sink' = [sink EXCEPT !.hdr = HeaderSet(@, k, v)]
    /\ UNCHANGED <<w, h, g>>

\* the next handler, given rw itself, writes its next n bytes to it
DirectWrite(n) ==
    /\ h.pc = "direct"
    /\ n > 0
    /\ n <= Len(h.todo)
    /\ sink' = origWrite(sink, Take(h.todo, n)).sink
    /\ h' = [h EXCEPT !.todo = Drop(h.todo, n),
                       !.written = h.written \o Take(h.todo, n)]
    /\ UNCHANGED <<w, g>>

\* the next handler returns and ServeHTTP returns after it
DirectReturn ==
    /\ h.pc = "direct"
    /\ h.todo = <<>>
    /\ h' = [h EXCEPT !.pc = "done"]
    /\ UNCHANGED <<w, sink, g>>

UpgradeValue == <<"U", "p", "g", "r", "a", "d", "e">>
KeepAlive == <<"k", "e", "e", "p", "-", "a", "l", "i", "v", "e">>

Requests ==
    {[method |-> md,
      header |-> [k \in ReqHeaderNames |->
                    CASE k = "Connection" -> conn
                      [] k = "Upgrade" -> upg
                      [] k = "Accept-Encoding" -> <<Gzip>>
                      [] OTHER -> IF id = <<>> THEN <<>> ELSE <<id>>]] :
        md \in {"GET", "POST"},
        conn \in {<<>>, <<UpgradeValue>>, <<KeepAlive>>,
                  <<KeepAlive, UpgradeValue>>},
        upg \in {<<>>, << <<"w", "e", "b", "s", "o", "c", "k", "e", "t">> >>},
        id \in {<<>>, <<" ">>, <<"h", " ">>}}

Configs ==
    {[ScriptSrc |-> ScriptSrc,
      WebsiteID |-> c,
      DefaultWebsiteID |-> d,
      WebsiteIDHeader |-> "X-Analytics-Website-Id",
      MaxLookaheadBytes |-> 0,
      InjectBefore |-> HeadClose,
      AlsoMatchBodyClose |-> TRUE,
      StripAcceptEncoding |-> strip,
      InjectOnNon2xx |-> FALSE] :
        c \in {<<>>, <<" ">>, <<" ", "c">>},
        d \in {<<>>, <<"\t">>, <<"d">>},
        strip \in BOOLEAN}

InitServe ==
    /\ w = NoWriter
    /\ sink = NewSink
    /\ \E cfg \in Configs, req \in Requests, b \in {HeadCloseUpper, <<"x">>} :
          h = [pc |-> "arrived", todo |-> b, written |-> <<>>, run |-> 1,
               cfg |-> cfg, req |-> req, arrived |-> req,
               given |-> [writer |-> "none", req |-> req, same |-> FALSE]]
    /\ g = NoHistory

NextServe ==
    \/ Enter
    \/ DirectSetHeader("Content-Type", HTMLType)
    \/ \E n \in 1..Len(h.todo) : DirectWrite(n)
    \/ DirectReturn
    \/ SetHeader("Content-Type", HTMLType)
    \/ \E n \in 0..Len(h.todo) : Write(n)
    \/ Finish

SpecServe == InitServe /\ [][NextServe]_vars

----------------------------------------------------------------------------
(* Intercepted requests with and without stripAcceptEncoding, and a next   *)
(* handler that sets headers on the request it was given                   *)

Identity == <<"i", "d", "e", "n", "t", "i", "t", "y">>

\* the next handler sets a header of the request it was given; when that is
\* the request object that came in, ServeHTTP's caller sees the change
NextSetsRequestHeader(k, v) ==
    /\ h.pc \in {"headers", "body"}
    /\ h.given.req.header[k] # <<v>>
    /\ h' = [h EXCEPT !.given.req.header[k] = <<v>>,
                       !.req = IF h.given.same
                               THEN [@ EXCEPT !.header[k] = <<v>>] ELSE @]
    /\ UNCHANGED <<w, sink, g>>

StripRequests ==
    {[method |-> "GET",
      header |-> [k \in ReqHeaderNames |->
                    CASE k = "Connection" -> conn
                      [] k = "Accept-Encoding" -> ae
                      [] OTHER -> <<>>]] :
        conn \in {<<>>, <<KeepAlive>>},
        ae \in {<<>>, <<Gzip>>, <<Gzip, Identity>>}}

StripConfigs ==
    {[ScriptSrc |-> ScriptSrc,
      WebsiteID |-> WebsiteID,
      DefaultWebsiteID |-> <<>>,
      WebsiteIDHeader |-> "X-Analytics-Website-Id",
      MaxLookaheadBytes |-> 8,
      InjectBefore |-> HeadClose,
      AlsoMatchBodyClose |-> TRUE,
      StripAcceptEncoding |-> strip,
      InjectOnNon2xx |-> FALSE] : strip \in BOOLEAN}

InitStrip ==
    /\ w = NoWriter
    /\ sink = NewSink
    /\ \E cfg \in StripConfigs, req \in StripRequests :
          h = [pc |-> "arrived", todo |-> HeadCloseUpper, written |-> <<>>,
               run |-> 1, cfg |-> cfg, req |-> req, arrived |-> req,
               given |-> [writer |-> "none", req |-> req, same |-> FALSE]]
    /\ g = NoHistory

NextStrip ==
    \/ Enter
    \/ NextSetsRequestHeader("Accept-Encoding", Identity)
    \/ NextSetsRequestHeader("Connection", KeepAlive)
    \/ SetHeader("Content-Type", HTMLType)
    \/ \E n \in 0..Len(h.todo) : Write(n)
    \/ Finish

SpecStrip == InitStrip /\ [][NextStrip]_vars

----------------------------------------------------------------------------
(* Configured look-ahead limits of every sign, and the default             *)
(* configuration                                                           *)

CreateConfig ==
    [ScriptSrc |->
        <<"h", "t", "t", "p", "s", ":", "/", "/", "a", "n", "a", "l", "y", "t",
          "i", "c", "s", ".", "j", "u", "b", "n", "l", ".", "c", "h", "/", "s",
          "c", "r", "i", "p", "t", ".", "j", "s">>,
     WebsiteID |-> <<>>,
     WebsiteIDHeader |-> "X-Analytics-Website-Id",
     DefaultWebsiteID |->
        <<"c", "1", "d", "f", "9", "4", "0", "e", "-", "0", "6", "6", "c", "-",
          "4", "0", "d", "f", "-", "a", "4", "8", "a", "-", "f", "b", "0", "c",
          "9", "2", "e", "a", "c", "0", "a", "3">>,
     MaxLookaheadBytes |-> 32 * 1024,
     InjectBefore |-> HeadClose,
     AlsoMatchBodyClose |-> TRUE,
     StripAcceptEncoding |-> TRUE,
     InjectOnNon2xx |-> FALSE]

LimitConfigs ==
    {CreateConfig}
        \cup {[CreateConfig EXCEPT !.MaxLookaheadBytes = n] :
                 n \in {-65536, -1, 0, 1, 7, 65537}}

InitLimit ==
    /\ w = NoWriter
    /\ sink = NewSink
    /\ \E cfg \in LimitConfigs, req \in StripRequests :
          h = [pc |-> "arrived", todo |-> HtmlTag \o HeadCloseUpper,
               written |-> <<>>, run |-> 1, cfg |-> cfg, req |-> req,
               arrived |-> req,
               given |-> [writer |-> "none", req |-> req, same |-> FALSE]]
    /\ g = NoHistory

NextLimit ==
    \/ Enter
    \/ \E n \in 0..Len(h.todo) : Write(n)
    \/ Finish

SpecLimit == InitLimit /\ [][NextLimit]_vars

----------------------------------------------------------------------------
(* Two requests served at the same time by one Middleware.  w, sink and h  *)
(* hold one streamWriter, sink and handler for each request, and g holds   *)
(* the Middleware (mw) that both calls of ServeHTTP read.  Next to each     *)
(* response h keeps the same response served alone (solo): the same         *)
(* operations applied to a streamWriter built from a Middleware that no    *)
(* other request has used.  The operations of the two responses are        *)
(* interleaved one call at a time: a call works on the fields of its own   *)
(* streamWriter and sink alone.                                            *)

PairIDs == {1, 2}

PairConfig ==
    [ScriptSrc |-> ScriptSrc,
     WebsiteID |-> <<>>,
     DefaultWebsiteID |-> <<"d">>,
     WebsiteIDHeader |-> "X-Analytics-Website-Id",
     MaxLookaheadBytes |-> 8,
     InjectBefore |-> HeadClose,
     AlsoMatchBodyClose |-> TRUE,
     StripAcceptEncoding |-> FALSE,
     InjectOnNon2xx |-> FALSE]

\* a GET request with the given lines of X-Analytics-Website-Id
PairRequest(lines) ==
    [method |-> "GET",
     header |-> [k \in ReqHeaderNames |->
                   IF k = "X-Analytics-Website-Id" THEN lines ELSE <<>>]]

\* the Middleware after a ServeHTTP that settled on websiteID, when the
\* call keeps the identifier in the Middleware
middlewareKeepingID(m, websiteID) == [m EXCEPT !.websiteID = websiteID]

\* the Middleware after a ServeHTTP that settled on websiteID: no field of
\* m is assigned
middlewareAfterServe(m, websiteID) == m

\* the streamWriter ServeHTTP builds for req from the Middleware m
streamWriterFor(m, req) ==
    newStreamWriter(m.maxLookaheadBytes, m.scriptSrc, websiteIDFor(m, req),
                    m.injectBefore, m.alsoMatchBodyClose, m.injectOnNon2xx)

InitPair ==
    /\ w = [i \in PairIDs |-> NoWriter]
    /\ sink = [i \in PairIDs |-> NewSink]
    /\ \E ids \in [PairIDs -> {<<>>, << <<"h">> >>, << <<"k">> >>}] :
          h = [i \in PairIDs |->
                 [pc |-> "arrived", todo |-> HeadCloseUpper \o <<"x">>,
                  written |-> <<>>, req |-> PairRequest(ids[i]),
                  solo |-> [w |-> NoWriter, sink |-> NewSink]]]
    /\ g = [mw |-> New(PairConfig)]

\* ServeHTTP for request i, up to its call of the next handler
PairEnter(i) ==
    /\ h[i].pc = "arrived"
    /\ h[i].req.method = "GET"
    /\ ~isUpgradeRequest(h[i].req)
    /\ websiteIDFor(g.mw, h[i].req) # <<>>
    /\ w' = [w EXCEPT ![i] = streamWriterFor(g.mw, h[i].req)]
    /\ g' = [g EXCEPT !.mw = middlewareAfterServe(
                                 @, websiteIDFor(g.mw, h[i].req))]
    /\ h' = [h EXCEPT ![i].pc = "headers",
                       ![i].solo.w = streamWriterFor(New(PairConfig),
                                                     h[i].req)]
    /\ UNCHANGED sink

\* the handler of request i declares its response as HTML
PairSetHeader(i) ==
    /\ h[i].pc = "headers"
    /\ HeaderGet(w[i].header, "Content-Type") = <<>>
    /\ w' = [w EXCEPT ![i].header = HeaderSet(@, "Content-Type", HTMLType)]
    /\ h' = [h EXCEPT ![i].solo.w.header =
                           HeaderSet(@, "Content-Type", HTMLType)]
    /\ UNCHANGED <<sink, g>>

\* the handler of request i writes its next n bytes (the bodies are ASCII:
\* no call panics)
PairWrite(i, n) ==
    /\ h[i].pc \in {"headers", "body"}
    /\ n <= Len(h[i].todo)
    /\ LET p == Take(h[i].todo, n)
           r == swWrite([w |-> w[i], sink |-> sink[i]], p)
           alone == swWrite(h[i].solo, p)
       IN  /\ w' = [w EXCEPT ![i] = r.w]
           /\ sink' = [sink EXCEPT ![i] = r.sink]
           /\ h' = [h EXCEPT ![i].pc = "body",
                              ![i].todo = Drop(h[i].todo, n),
                              ![i].written = h[i].written \o p,
                              ![i].solo = [w |-> alone.w,
                                           sink |-> alone.sink]]
    /\ UNCHANGED g

PairFlush(i) ==
    /\ h[i].pc \in {"headers", "body"}
    /\ LET m == swFlush([w |-> w[i], sink |-> sink[i]])
       IN  /\ w' = [w EXCEPT ![i] = m.w]
           /\ sink' = [sink EXCEPT ![i] = m.sink]
    /\ h' = [h EXCEPT ![i].pc = "body", ![i].solo = swFlush(@)]
    /\ UNCHANGED g

\* the handler of request i returns and ServeHTTP calls sw.finish()
PairFinish(i) ==
    /\ h[i].pc \in {"headers", "body"}
    /\ h[i].todo = <<>>
    /\ LET m == swFinish([w |-> w[i], sink |-> sink[i]])
       IN  /\ w' = [w EXCEPT ![i] = m.w]
           /\ sink' = [sink EXCEPT ![i] = m.sink]
    /\ h' = [h EXCEPT ![i].pc = "done", ![i].solo = swFinish(@)]
    /\ UNCHANGED g

NextPair ==
    \E i \in PairIDs :
        \/ PairEnter(i)
        \/ PairSetHeader(i)
        \/ \E n \in 0..Len(h[i].todo) : PairWrite(i, n)
        \/ PairFlush(i)
        \/ PairFinish(i)

SpecPair == InitPair /\ [][NextPair]_vars

----------------------------------------------------------------------------
(* The classification on its own: htmlCandidateFromHeadersAndSniff and     *)
(* sniffHTML are called once on a sample.  Here w is a streamWriter with   *)
(* its captured status and headers, h holds the sample and g what the two  *)
(* calls returned.                                                         *)

\* n bytes "x"
Filler(n) == [i \in 1..n |-> "x"]

\* the values of the Content-Type header of a response: none, empty, white
\* space, HTML in several spellings, other types
ClassifyTypes ==
    {<<>>,
     << <<>> >>,
     << <<" ">> >>,
     << <<"\t", " ">> >>,
     << HTMLType >>,
     << <<"t", "e", "x", "t", "/", "h", "t", "m", "l", ";", " ", "c",
          "h", "a", "r", "s", "e", "t", "=", "u", "t", "f", "-", "8">> >>,
     << <<" ", "A", "p", "p", "l", "i", "c", "a", "t", "i", "o", "n",
          "/", "X", "H", "T", "M", "L", "+", "X", "M", "L">> >>,
     << <<"a", "p", "p", "l", "i", "c", "a", "t", "i", "o", "n", "/",
          "j", "s", "o", "n">> >>,
     << <<"t", "e", "x", "t", "/", "p", "l", "a", "i", "n">> >>,
     << <<"t", "e", "x", "t", "/", "x", "m", "l">> >>}

\* samples with each marker at the start, behind white space, further on,
\* and at the end of the 2048 bytes that are looked at
ClassifySamples ==
    {<<>>,
     <<"x">>,
     <<" ", "\n">>,
     HtmlTag,
     <<"\r", "\n", " ", "\t">> \o <<"<", "H", "T", "M", "L", " ", "l", "a", "n", "g">>,
     <<"<", "!", "D", "o", "c", "T", "y", "p", "e", " ", "H", "T", "M",
       "L", ">">>,
     <<"<", "!", "d", "o", "c", "t", "y", "p", "e", " ", "s", "v", "g",
       ">">>,
     <<"x", "<", "h", "t", "m", "l", ">">>,
     <<"t", "e", "x", "t", " ", "<", "H", "E", "A", "D", ">">>,
     <<"t", "e", "x", "t", " ", "<", "B", "o", "d", "y", ">">>,
     <<"<", "?", "x", "m", "l", " ", "?", ">">>,
     <<" ", "<", "?", "X", "M", "L", " ", "?", ">", "<", "b", "o", "d",
       "y", ">">>,
     <<"x", "<", "?", "x", "m", "l">>,
     HeadCloseUpper,
     BodyClose,
     Latin1Pair \o HeadOpen,
     Filler(SniffWindow - 5) \o HeadOpen,
     Filler(SniffWindow - 4) \o HeadOpen,
     Filler(SniffWindow) \o BodyOpen}

InitClassify ==
    /\ \E st \in StatusCodes, non2xx \in BOOLEAN, ct \in ClassifyTypes :
          w = [newStreamWriter(8, ScriptSrc, WebsiteID, HeadClose, TRUE,
                               non2xx)
               EXCEPT !.wroteHeader = TRUE, !.status = st,
                      !.header["Content-Type"] = ct]
    /\ sink = NewSink
    /\ \E sample \in ClassifySamples : h = [pc |-> "ready", sample |-> sample]
    /\ g = [cand |-> "none", sniff |-> "none"]

CallClassify ==
    /\ h.pc = "ready"
    /\ g' = [cand |-> htmlCandidateFromHeadersAndSniff(w, h.sample),
             sniff |-> sniffHTML(h.sample)]
    /\ h' = [h EXCEPT !.pc = "returned"]
    /\ UNCHANGED <<w, sink>>

SpecClassify == InitClassify /\ [][CallClassify]_vars

----------------------------------------------------------------------------
(* Responses without a Content-Type, which are classified by sniffing      *)

\* bodies that start with a marker of HTML, with white space ahead of it,
\* with an XML declaration, or with plain text
InitSniff ==
    InitOver({32}, BOOLEAN, {FALSE},
             {HtmlTag \o HeadCloseUpper,
              HtmlTag \o BodyClose,
              <<" ", "\n">> \o HtmlTag \o HeadCloseUpper,
              HtmlTag \o Latin1Word \o HeadCloseUpper,
              XmlDecl \o HeadCloseUpper,
              <<"x">> \o HeadCloseUpper})

NextSniff ==
    \/ \E n \in 0..Len(h.todo) : Write(n)
    \/ Finish

SpecSniff == InitSniff /\ [][NextSniff]_vars

----------------------------------------------------------------------------
(* The splice engine on its own: tryInject is called once on a buffer.     *)
(* Here h holds the arguments of the call and g what it returned.          *)

InitSplice ==
    /\ w = NoWriter
    /\ sink = NewSink
    /\ \E b \in Bodies, t \in {HeadClose, HeadCloseUpper}, also \in BOOLEAN :
          h = [pc |-> "ready", prefix |-> b, scriptSrc |-> ScriptSrc,
               websiteID |-> WebsiteID, injectBefore |-> t,
               alsoMatchBodyClose |-> also]
    /\ g = NotInjected

CallTryInject ==
    /\ h.pc = "ready"
    /\ g' = tryInject(h.prefix, h.scriptSrc, h.websiteID, h.injectBefore,
                      h.alsoMatchBodyClose)
    /\ h' = [h EXCEPT !.pc = "returned"]
    /\ UNCHANGED <<w, sink>>

SpecSplice == InitSplice /\ [][CallTryInject]_vars

----------------------------------------------------------------------------
(* Vocabulary of the properties                                            *)

\* sub occurs in s at 0-based offset i
OccursAt(s, sub, i) ==
    /\ i >= 0
    /\ i + Len(sub) <= Len(s)
    /\ \A k \in 1..Len(sub) : s[i + k] = sub[k]

Occurs(s, sub) == \E i \in 0..Len(s) : OccursAt(s, sub, i)

\* sub occurs in s at offset i, letters compared without regard to case
OccursFoldAt(s, sub, i) ==
    /\ i >= 0
    /\ i + Len(sub) <= Len(s)
    /\ \A k \in 1..Len(sub) : lowerASCII(s[i + k]) = lowerASCII(sub[k])

OccursFold(s, sub) == \E i \in 0..Len(s) : OccursFoldAt(s, sub, i)

\* offset of the first occurrence of sub in s without regard to case
FirstFold(s, sub) ==
    LET at == {i \in 0..Len(s) : OccursFoldAt(s, sub, i)}
    IN  CHOOSE i \in at : \A j \in at : i <= j

\* s with x inserted at offset i
InsertAt(s, i, x) == SubSeq(s, 1, i) \o x \o SubSeq(s, i + 1, Len(s))

TheSnippet == Snippet(w.scriptSrc, w.websiteID)

\* the first lookaheadLimit bytes the handler has written
Window == SubSeq(h.written, 1, Min(Len(h.written), w.lookaheadLimit))

DeclaredType == HeaderGet(w.header, "Content-Type")

DeclaredHTML ==
    OccursFold(DeclaredType, TextHTML) \/ OccursFold(DeclaredType, AppXHTML)

DeclaredEncoding == HeaderGet(w.header, "Content-Encoding")

EligibleStatus ==
    /\ w.status >= 200
    /\ IF w.injectOnNon2xx THEN w.status < 600 ELSE w.status < 300

Returned == h.pc = "done"

----------------------------------------------------------------------------
(* Properties                                                              *)

\* C1: the bytes that reached the sink, followed by the bytes still held in
\* the look-ahead buffer, are the chunks passed to Write in order, with at
\* most one snippet inserted and nothing dropped, duplicated or reordered;
\* after finish nothing is held back.
C1_BytesPreserved ==
    /\ \/ sink.body \o w.buf = h.written
       \/ \E i \in 0..Len(h.written) :
             sink.body \o w.buf = InsertAt(h.written, i, TheSnippet)
    /\ Returned => w.buf = <<>>

\* a response written in several chunks, larger than the look-ahead limit,
\* was injected and has been finished
C1_Witness ==
    /\ Returned
    /\ g.injections = 1
    /\ g.afterInject
    /\ Len(h.written) > w.lookaheadLimit
    /\ sink.body # h.written

\* C2: the snippet is spliced in at most once per streamWriter: the output
\* is never longer than the input plus one snippet, and after the decision
\* is Injecting no operation splices again.
C2_AtMostOneSplice ==
    /\ g.injections <= 1
    /\ Len(sink.body) + Len(w.buf) <= Len(h.written) + Len(TheSnippet)
    /\ w.state = injecting => g.injections = 1

\* a target was written in a later chunk after the decision had become
\* Injecting, and the response has been finished
C2_Witness ==
    /\ Returned
    /\ g.injections = 1
    /\ g.afterInject
    /\ \E i \in 1..Len(h.written) : OccursFoldAt(h.written, w.injectBefore, i)

\* C3: the sink's WriteHeader is called at most once and before the first
\* body byte reaches the sink; once ServeHTTP has returned it has been
\* called exactly once.
C3_HeaderOnceBeforeBody ==
    /\ sink.whCalls <= 1
    /\ ~sink.bodyFirst
    /\ sink.body # <<>> => sink.whCalls = 1
    /\ Returned => sink.whCalls = 1

\* a response with a body was resolved by a Write, flushed and finished
C3_Witness ==
    /\ Returned
    /\ sink.whCalls = 1
    /\ sink.body # <<>>
    /\ g.resolvedBy = "Write"

\* the decision was not forced by Flush or Hijack
NotForced == g.resolvedBy \notin {"Flush", "Hijack"}

\* an eligible response declared as HTML and not encoded, finished
DeclaredHTMLResponse ==
    /\ Returned
    /\ NotForced
    /\ EligibleStatus
    /\ DeclaredHTML
    /\ DeclaredEncoding = <<>>

\* the body holds neither the script source nor </body>, so that neither
\* the already-present rule nor the secondary target plays a part
PlainBody ==
    /\ ~Occurs(h.written, w.scriptSrc)
    /\ ~OccursFold(h.written, BodyClose)

\* C4: an eligible, declared-HTML, unencoded response whose body holds the
\* primary target within the first lookaheadLimit bytes comes out, however
\* it was chunked, as the body with the snippet inserted once, immediately
\* before the first occurrence of the primary target (stated for bodies
\* that hold neither the script source nor </body>).
C4_Claim ==
    (/\ DeclaredHTMLResponse
     /\ PlainBody
     /\ OccursFold(Window, w.injectBefore))
        => sink.body = InsertAt(h.written,
                                FirstFold(h.written, w.injectBefore),
                                TheSnippet)

\* C5: an eligible HTML response without the primary target whose body
\* holds </body> within the first lookaheadLimit bytes gets the snippet
\* once, immediately before the first </body>, when alsoMatchBodyClose is
\* enabled, and comes out unchanged when it is disabled (stated for bodies
\* that do not hold the script source).
C5_Claim ==
    (/\ DeclaredHTMLResponse
     /\ ~Occurs(h.written, w.scriptSrc)
     /\ ~OccursFold(h.written, w.injectBefore)
     /\ OccursFold(Window, BodyClose))
        => IF w.alsoMatchBodyClose
           THEN sink.body = InsertAt(h.written,
                                     FirstFold(h.written, BodyClose),
                                     TheSnippet)
           ELSE sink.body = h.written /\ g.injections = 0

\* no target lies within the first lookaheadLimit bytes written
NoTargetInWindow ==
    /\ ~OccursFold(Window, w.injectBefore)
    /\ w.alsoMatchBodyClose => ~OccursFold(Window, BodyClose)

\* C6: when neither the primary nor the enabled secondary target occurs
\* within the first lookaheadLimit bytes, nothing is spliced in and the
\* finished output is the input, byte for byte, whatever its size and
\* chunking and even if a target occurs beyond the limit.
C6_NoTargetNoChange ==
    NoTargetInWindow
        => /\ g.injections = 0
           /\ w.state # injecting
           /\ Returned => sink.body = h.written

\* an HTML response longer than the limit, with the primary target beyond
\* the limit, was resolved by a Write and finished
C6_Witness ==
    /\ DeclaredHTMLResponse
    /\ g.resolvedBy = "Write"
    /\ NoTargetInWindow
    /\ OccursFold(h.written, w.injectBefore)
    /\ Len(h.written) > w.lookaheadLimit
    /\ sink.body = h.written

AllSpace(s) == \A i \in 1..Len(s) : s[i] \in AsciiSpace

Untouched ==
    /\ w.state = passthrough
    /\ g.injections = 0
    /\ sink.body = h.written

\* C7 as stated: a declared Content-Type that is non-empty and names
\* neither text/html nor application/xhtml+xml gives Passthrough and an
\* output identical to the input.
C7_Original ==
    (Returned /\ DeclaredType # <<>> /\ ~DeclaredHTML) => Untouched

\* C7, amended: a declared Content-Type that is non-empty after trimming
\* white space and names neither text/html nor application/xhtml+xml gives
\* Passthrough and an output identical to the input, whatever the body
\* holds.
C7_NonHTMLPassthrough ==
    (~AllSpace(DeclaredType) /\ ~DeclaredHTML)
        => /\ g.injections = 0
           /\ w.state # injecting
           /\ Returned => Untouched

\* a JSON response whose body starts like HTML and holds the primary
\* target within the limit was classified by a Write and finished
C7_Witness ==
    /\ Returned
    /\ g.resolvedBy = "Write"
    /\ EligibleStatus
    /\ DeclaredEncoding = <<>>
    /\ ~AllSpace(DeclaredType) /\ ~DeclaredHTML
    /\ OccursFoldAt(Window, HtmlOpen, 0)
    /\ OccursFold(Window, w.injectBefore)
    /\ sink.body = h.written

\* C8: a response whose handler set a non-empty Content-Encoding before the
\* first chunk is never spliced: the decision is Passthrough, the output is
\* the input and the Content-Encoding header is emitted as set, even for
\* declared HTML holding a target.
C8_EncodedPassthrough ==
    DeclaredEncoding # <<>>
        => /\ g.injections = 0
           /\ w.state # injecting
           /\ Returned => /\ Untouched
                          /\ sink.sent["Content-Encoding"] = <<Gzip>>

\* a gzip-encoded response declared as HTML, holding the primary target
\* within the limit, was resolved by a Write and finished
C8_Witness ==
    /\ Returned
    /\ g.resolvedBy = "Write"
    /\ DeclaredEncoding = Gzip
    /\ EligibleStatus
    /\ DeclaredHTML
    /\ OccursFold(Window, w.injectBefore)
    /\ sink.body = h.written

\* C9: when the Write call that resolves the decision finds the script
\* source in the buffered prefix, it resolves to Passthrough and splices
\* nothing: the sink holds exactly the input, then and when the response is
\* finished.
C9_AlreadyPresent ==
    /\ [][(/\ w.state = undecided
           /\ w'.state # undecided
           /\ h'.written # h.written
           /\ Occurs(Window', w.scriptSrc))
              => (/\ w'.state = passthrough
                  /\ g'.injections = 0
                  /\ sink'.body = h'.written)]_vars
    /\ []((Returned /\ w.state = passthrough) => sink.body = h.written)

\* an HTML response holding both the script source and the primary target
\* within the limit was resolved to Passthrough by a Write
C9_Witness ==
    /\ g.resolvedBy = "Write"
    /\ w.state = passthrough
    /\ EligibleStatus
    /\ DeclaredHTML
    /\ DeclaredEncoding = <<>>
    /\ Occurs(Window, w.scriptSrc)
    /\ OccursFold(Window, w.injectBefore)
    /\ sink.body = h.written

\* offset of the first occurrence of sub in s
First(s, sub) ==
    LET at == {i \in 0..Len(s) : OccursAt(s, sub, i)}
    IN  CHOOSE i \in at : \A j \in at : i <= j

\* the whole input of the current run
Input == h.written \o h.todo

\* the input up to, and without, the last byte of the first occurrence of
\* the script source (the whole input when it does not occur)
BeforeScriptEnd ==
    IF Occurs(Input, w.scriptSrc)
    THEN SubSeq(Input, 1, First(Input, w.scriptSrc) + Len(w.scriptSrc) - 1)
    ELSE Input

SecondRun == h.run = 2 /\ EligibleStatus /\ DeclaredHTML

\* C10 as stated: the output of an injected response, fed through a fresh
\* state machine with the same configuration, is never spliced again and
\* comes out as it went in, for every chunking.
C10_Original ==
    SecondRun => /\ g.injections = 0
                 /\ Returned => sink.body = h.written

\* C10, amended: the same, provided no target (the primary one, or </body>
\* when the secondary target is enabled) occurs in that output before the
\* end of the first occurrence of the script source.
C10_IdempotentWhenNoEarlierTarget ==
    (/\ SecondRun
     /\ ~OccursFold(BeforeScriptEnd, w.injectBefore)
     /\ w.alsoMatchBodyClose => ~OccursFold(BeforeScriptEnd, BodyClose))
        => /\ g.injections = 0
           /\ w.state # injecting
           /\ Returned => sink.body = h.written

\* the output of an injected response went through a second run, whose
\* decision was taken by a Write, and came out unchanged
C10_Witness ==
    /\ SecondRun
    /\ Returned
    /\ g.resolvedBy = "Write"
    /\ DeclaredEncoding = <<>>
    /\ Occurs(Window, TheSnippet)
    /\ OccursFold(Window, w.injectBefore)
    /\ ~OccursFold(BeforeScriptEnd, w.injectBefore)
    /\ w.alsoMatchBodyClose => ~OccursFold(BeforeScriptEnd, BodyClose)
    /\ sink.body = h.written

\* the status the handler declared, 200 when it declared none
DeclaredStatus == IF g.declared = 0 THEN StatusOK ELSE g.declared

EligibleDeclared ==
    /\ DeclaredStatus >= 200
    /\ DeclaredStatus < (IF w.injectOnNon2xx THEN 600 ELSE 300)

\* C11: a snippet is spliced in only when the declared status is in 2xx
\* (injectOnNon2xx off) or in 2xx-5xx (on); a response with any other
\* status comes out byte-identical without a snippet; and the status
\* committed on the sink is always the one the handler declared.
C11_StatusEligibility ==
    /\ g.injections > 0 => EligibleDeclared
    /\ (~EligibleDeclared /\ Returned) =>
           /\ sink.body = h.written
           /\ g.injections = 0
           /\ w.state = passthrough
    /\ sink.wroteHeader => sink.status = DeclaredStatus

\* a 404 page declared as HTML, with the target inside the window and
\* injectOnNon2xx off, went out unchanged with status 404
C11_Witness ==
    /\ Returned
    /\ ~w.injectOnNon2xx
    /\ g.declared = 404
    /\ DeclaredHTML
    /\ OccursFold(Window, w.injectBefore)
    /\ g.resolvedBy = "Write"
    /\ sink.status = 404
    /\ sink.body = h.written

\* the values a header map holds for a header name, under any spelling of
\* the name
Values(hd, name) ==
    hd[name] \o (IF CanonicalHeaderKey(RawETag) = name THEN hd[RawETag]
                 ELSE <<>>)

\* this step is the header flush
HeaderFlushStep == ~w.headersFlushed /\ w'.headersFlushed

StrippedNames == {"Content-Length", "Etag"}

\* C12: the headers emitted on the sink are the headers captured from the
\* handler, without Content-Length and ETag when the decision is Injecting
\* and complete when it is Passthrough (stated for a sink that held no
\* headers of its own).
C12_Claim ==
    [][(HeaderFlushStep /\ sink.hdr = NoHeaders) =>
          \A name \in HeaderNames :
              Values(sink'.sent, name) =
                  IF w'.state = injecting /\ name \in StrippedNames
                  THEN <<>>
                  ELSE Values(w.header, name)]_vars

\* C13: the header flush leaves on the sink exactly the captured headers,
\* whatever the sink held before, and then commits the captured status;
\* once it has run, no step changes the sink's headers or commits a status
\* again.
C13_Claim ==
    [][/\ HeaderFlushStep =>
             /\ \A name \in HeaderNames :
                    Values(sink'.hdr, name) = Values(w'.header, name)
             /\ sink'.wroteHeader
             /\ sink'.sent = sink'.hdr
             /\ sink'.status = w'.status
             /\ sink'.whCalls = sink.whCalls + 1
       /\ w.headersFlushed =>
             /\ sink'.hdr = sink.hdr
             /\ sink'.sent = sink.sent
             /\ sink'.status = sink.status
             /\ sink'.whCalls = sink.whCalls]_vars

\* C14: a Flush or Hijack that finds the decision Undecided makes it
\* Passthrough, commits the headers and writes every byte written so far
\* to the sink, leaving the buffer empty; and no Flush or Hijack reaches
\* the sink while bytes or headers are held back.
C14_ResolvedBeforeControl ==
    [][/\ ~sink'.ctlEarly
       /\ (w.state = undecided /\ g'.resolvedBy \in {"Flush", "Hijack"}) =>
             /\ w'.state = passthrough
             /\ w'.headersFlushed
             /\ sink'.whCalls = 1
             /\ w'.buf = <<>>
             /\ sink'.body = h.written]_vars

\* a Flush on a flushing sink found bytes in the buffer and resolved the
\* decision; the handler has more to write
C14_Witness ==
    /\ g.resolvedBy = "Flush"
    /\ sink.flusher
    /\ h.pc = "body"
    /\ sink.body # <<>>
    /\ sink.body = h.written
    /\ h.todo # <<>>

\* C15: once ServeHTTP has returned the decision is not Undecided, the
\* buffer is empty, the headers are committed and every byte the handler
\* wrote is on the sink (with the snippet when one was spliced in); a
\* decision left to finish is Passthrough and the output is the input.
C15_ReleasedOnReturn ==
    Returned =>
        /\ w.state \in {passthrough, injecting}
        /\ w.buf = <<>>
        /\ w.headersFlushed
        /\ sink.wroteHeader
        /\ Len(sink.body) =
              Len(h.written) + (IF g.injections = 0 THEN 0
                                ELSE Len(TheSnippet))
        /\ g.injections = 0 => sink.body = h.written
        /\ g.resolvedBy = "finish" => w.state = passthrough

\* the handler returned with bytes still buffered and finish released them
C15_Witness ==
    /\ Returned
    /\ g.resolvedBy = "finish"
    /\ sink.body # <<>>
    /\ sink.body = h.written
    /\ sink.whCalls = 1

\* C16: the decision starts Undecided and changes at most once: once it is
\* Passthrough or Injecting no operation changes it.
C16_DecisionMonotonic ==
    /\ w.state = undecided
    /\ [][/\ w'.state \in {undecided, passthrough, injecting}
          /\ w.state # undecided => w'.state = w.state]_vars

\* the decision became Injecting, more was written afterwards and the
\* handler returned: the decision is still Injecting
C16_Witness ==
    /\ Returned
    /\ w.state = injecting
    /\ g.afterInject

\* C17: the look-ahead buffer never holds more than lookaheadLimit bytes,
\* neither between operations nor during a Write, whatever the sizes of the
\* body and of the chunks.
C17_BufferBounded ==
    /\ Len(w.buf) <= w.lookaheadLimit
    /\ ~g.overLimit

\* a declared HTML body longer than the limit, without the script source
\* or a target in its first lookaheadLimit bytes, was given up by a Write
\* because the buffer was full
C17_Witness ==
    /\ g.resolvedBy = "Write"
    /\ w.state = passthrough
    /\ EligibleStatus
    /\ DeclaredHTML
    /\ DeclaredEncoding = <<>>
    /\ ~Occurs(Window, w.scriptSrc)
    /\ Len(h.written) > w.lookaheadLimit
    /\ sink.body = h.written

\* C18: after every operation that leaves the decision Passthrough or
\* Injecting the look-ahead buffer is empty, and once the decision is taken
\* no operation adds to the buffer, also when writes to the sink fail.
C18_Claim ==
    [][/\ w'.state # undecided => w'.buf = <<>>
       /\ w.state # undecided => Len(w'.buf) <= Len(w.buf)]_vars

\* s without its leading and trailing white space
Stripped(s) ==
    LET at == {i \in 1..Len(s) : s[i] \notin AsciiSpace}
    IN  IF at = {} THEN <<>>
        ELSE SubSeq(s, CHOOSE i \in at : \A j \in at : i <= j,
                       CHOOSE i \in at : \A j \in at : j <= i)

\* the first of the configured identifier, the value of the configured
\* request header and the configured default that is not blank, stripped
ExpectedID ==
    LET lines == h.req.header[h.cfg.WebsiteIDHeader]
        sent == IF lines = <<>> THEN <<>> ELSE lines[1]
    IN  IF Stripped(h.cfg.WebsiteID) # <<>> THEN Stripped(h.cfg.WebsiteID)
        ELSE IF Stripped(sent) # <<>> THEN Stripped(sent)
        ELSE Stripped(h.cfg.DefaultWebsiteID)

\* the request has an Upgrade header that is not empty and a Connection
\* header line that holds "upgrade" in any case
UpgradeRequest ==
    /\ \E i \in DOMAIN h.req.header["Upgrade"] :
          h.req.header["Upgrade"][i] # <<>>
    /\ \E i \in DOMAIN h.req.header["Connection"] :
          OccursFold(h.req.header["Connection"][i], UpgradeWord)

Entered == h.pc # "arrived"

\* the next handler was given the writer and the request as they came, no
\* streamWriter exists, and what the handler wrote is what the sink holds
Bypassed ==
    /\ w = NoWriter
    /\ h.given = [writer |-> "rw", req |-> h.req, same |-> TRUE]
    /\ g.injections = 0
    /\ sink.whCalls = 0
    /\ sink.body = h.written

C20_Claim == (Entered /\ (h.req.method # "GET" \/ UpgradeRequest)) => Bypassed

\* this step is ServeHTTP's call of the next handler with a streamWriter
Intercepted == h.pc = "arrived" /\ h'.given.writer = "sw"

\* C21: with stripAcceptEncoding the next handler is given a request that
\* is not the object that came in and whose headers are those that came in
\* without Accept-Encoding, and the headers of the object that came in are
\* never changed; without it the next handler is given the object that
\* came in, Accept-Encoding included.
C21_StripOnClone ==
    /\ [][Intercepted =>
              IF h.cfg.StripAcceptEncoding
              THEN /\ ~h'.given.same
                   /\ h'.given.req.method = h.arrived.method
                   /\ \A k \in ReqHeaderNames :
                          h'.given.req.header[k] =
                              IF k = "Accept-Encoding" THEN <<>>
                              ELSE h.arrived.header[k]
              ELSE /\ h'.given.same
                   /\ h'.given.req = h.arrived]_vars
    /\ [](h.cfg.StripAcceptEncoding => h.req = h.arrived)

\* a request with two Accept-Encoding lines was intercepted with
\* stripAcceptEncoding, the next handler set headers on what it was given,
\* and ServeHTTP returned after an injection
C21_Witness ==
    /\ Returned
    /\ h.cfg.StripAcceptEncoding
    /\ h.arrived.header["Accept-Encoding"] = <<Gzip, Identity>>
    /\ h.given.req.header["Accept-Encoding"] = <<Identity>>
    /\ h.req = h.arrived
    /\ g.injections = 1

\* tryInject returned the buffer with the snippet put in before the first
\* occurrence of tag, compared without regard to case
SplicedBefore(tag) ==
    /\ ~g.panic
    /\ g.ok
    /\ g.updated = InsertAt(h.prefix, FirstFold(h.prefix, tag),
                            Snippet(h.scriptSrc, h.websiteID))

\* C22: for a non-empty buffer that does not hold the script source,
\* tryInject returns the buffer, unchanged in every byte, with the snippet
\* <script defer src="SRC" data-website-id="ID"></script> inserted before
\* the first occurrence of the primary target, compared without regard to
\* case; when there is none and the secondary target is enabled, before the
\* first </body>; when neither occurs it reports failure.
C22_Claim ==
    (/\ h.pc = "returned"
     /\ h.prefix # <<>>
     /\ ~Occurs(h.prefix, h.scriptSrc))
        => IF OccursFold(h.prefix, h.injectBefore)
           THEN SplicedBefore(h.injectBefore)
           ELSE IF h.alsoMatchBodyClose /\ OccursFold(h.prefix, BodyClose)
                THEN SplicedBefore(BodyClose)
           ELSE ~g.ok /\ ~g.panic

\* s without its leading blanks, tabs, carriage returns and line feeds
RECURSIVE LeftTrimmed(_)
LeftTrimmed(s) ==
    IF s # <<>> /\ s[1] \in {" ", "\t", "\r", "\n"}
    THEN LeftTrimmed(SubSeq(s, 2, Len(s)))
    ELSE s

\* what the first 2048 bytes of s look like: "Eligible" when they start,
\* after leading white space and without regard to case, with
\* <!doctype html or <html or hold <head or <body; else "Ineligible" when
\* they start with <?xml; else "Indeterminate"
Sniffed(s) ==
    LET t == LeftTrimmed(SubSeq(s, 1, Min(Len(s), 2048)))
    IN  IF s = <<>> THEN "Indeterminate"
        ELSE IF \/ OccursFoldAt(t, DoctypeHTML, 0)
                \/ OccursFoldAt(t, HtmlOpen, 0)
                \/ OccursFold(t, HeadOpen)
                \/ OccursFold(t, BodyOpen)
             THEN "Eligible"
        ELSE IF OccursFoldAt(t, XmlDecl, 0) THEN "Ineligible"
        ELSE "Indeterminate"

\* C23: without a declared content type, once the handler has written
\* lookaheadLimit bytes or more and the first lookaheadLimit of them look
\* indeterminate, the decision is Passthrough, nothing is held back, no
\* snippet was inserted and the sink holds exactly the bytes written.
C23_IndeterminateFallsBack ==
    (/\ DeclaredType = <<>>
     /\ Len(h.written) >= w.lookaheadLimit
     /\ Sniffed(Window) = "Indeterminate")
        => /\ w.state = passthrough
           /\ w.buf = <<>>
           /\ w.headersFlushed
           /\ g.injections = 0
           /\ sink.body = h.written

\* an eligible response without a content type, whose first lookaheadLimit
\* bytes hold </body> but no marker of HTML, was given up by the Write that
\* filled the buffer; the handler wrote more and returned
C23_Witness ==
    /\ Returned
    /\ DeclaredType = <<>>
    /\ DeclaredEncoding = <<>>
    /\ EligibleStatus
    /\ g.resolvedBy = "Write"
    /\ w.alsoMatchBodyClose
    /\ OccursFold(Window, BodyClose)
    /\ Sniffed(Window) = "Indeterminate"
    /\ Len(h.written) > w.lookaheadLimit
    /\ sink.body = h.written

\* C24: a Write during which a write to the sink failed, be it the write
\* of the buffered bytes or that of the chunk, returns an error.
C24_Claim == ~g.unreported

\* C25: a Hijack on a sink that is no http.Hijacker returns
\* http.ErrNotSupported and leaves the streamWriter and the sink as they
\* were: decision, buffer and header-flush flag are unchanged and nothing
\* reaches the sink; the handler does not get the connection.
C25_RefusedHijackChangesNothing ==
    /\ [][(~g.notSupported /\ g'.notSupported) =>
              /\ ~sink.hijacker
              /\ w' = w
              /\ sink' = sink
              /\ h' = h]_vars
    /\ [](~sink.hijacker => h.pc # "hijacked")
    /\ [](sink.hijacker => ~g.notSupported)

\* a Hijack was refused while bytes were buffered, and the response was
\* injected by a later Write and finished
C25_Witness ==
    /\ Returned
    /\ g.notSupported
    /\ ~sink.hijacker
    /\ g.injections = 1
    /\ g.resolvedBy = "Write"
    /\ sink.body = InsertAt(h.written, FirstFold(h.written, w.injectBefore),
                            TheSnippet)

OwnID(i) ==
    LET lines == h[i].req.header["X-Analytics-Website-Id"]
    IN  IF lines = <<>> THEN PairConfig.DefaultWebsiteID ELSE lines[1]

ClassOf(cand) ==
    CASE cand = candidateYes -> "Eligible"
      [] cand = candidateNo -> "Ineligible"
      [] cand = candidateMaybe -> "Indeterminate"
      [] OTHER -> "none"

\* C28: the classification is Ineligible for an ineligible status; else
\* Eligible for a Content-Type that holds text/html or
\* application/xhtml+xml in any case, with or without parameters, whatever
\* the sample; else Ineligible for a Content-Type with anything but white
\* space in it; and what sniffing the sample gives only when the
\* Content-Type is absent, empty or white space.
C28_ClassificationOrder ==
    h.pc = "returned" =>
        ClassOf(g.cand) =
            IF ~EligibleStatus THEN "Ineligible"
            ELSE IF DeclaredHTML THEN "Eligible"
            ELSE IF ~AllSpace(DeclaredType) THEN "Ineligible"
            ELSE Sniffed(h.sample)

\* a 404 response declared as text/html with a sample that starts like
\* HTML was classified Ineligible with injectOnNon2xx off
C28_Witness ==
    /\ h.pc = "returned"
    /\ w.status = 404
    /\ ~w.injectOnNon2xx
    /\ DeclaredHTML
    /\ Sniffed(h.sample) = "Eligible"
    /\ g.cand = candidateNo

\* C29, the sniffing rules: sniffing looks at the first 2048 bytes of the
\* sample, without their leading blanks, tabs, carriage returns and line
\* feeds and without regard to case: a start <!doctype html or <html, or a
\* <head or <body anywhere, gives Eligible; else a start <?xml gives
\* Ineligible; else, and for no bytes at all, Indeterminate.
C29_SniffRules == h.pc = "returned" => ClassOf(g.sniff) = Sniffed(h.sample)

\* a sample that starts with an XML declaration behind white space and
\* holds <body further on was sniffed as HTML
C29_Witness ==
    /\ h.pc = "returned"
    /\ h.sample # <<>>
    /\ h.sample[1] = " "
    /\ OccursFoldAt(LeftTrimmed(h.sample), XmlDecl, 0)
    /\ OccursFold(h.sample, BodyOpen)
    /\ g.sniff = candidateYes

\* a target lies within the first lookaheadLimit bytes written
TargetInWindow ==
    \/ OccursFold(Window, w.injectBefore)
    \/ w.alsoMatchBodyClose /\ OccursFold(Window, BodyClose)

\* C29: a response without a content type is classified by what its first
\* bytes look like: once the bytes written start like HTML and hold a
\* target, the snippet has been inserted; a finished response whose bytes
\* look indeterminate or like XML has come out unchanged.
C29_Claim ==
    DeclaredType = <<>> =>
        /\ (Sniffed(Window) = "Eligible" /\ TargetInWindow) =>
               /\ h.pc # "panicked"
               /\ g.injections = 1
               /\ Len(sink.body) = Len(h.written) + Len(TheSnippet)
        /\ (Returned /\ Sniffed(Window) # "Eligible") => Untouched

\* the chunk this step passes to Write, what the call returns, and the
\* buffer with the chunk appended
Chunk == SubSeq(h'.written, Len(h.written) + 1, Len(h'.written))

Returns == swWrite([w |-> w, sink |-> sink], Chunk)

Grown == w.buf \o Chunk

\* the buffer with the chunk looks indeterminate and no content type says
\* otherwise
StillIndeterminate ==
    /\ EligibleStatus
    /\ AllSpace(DeclaredType)
    /\ Sniffed(Grown) = "Indeterminate"

\* the response is HTML by its content type or by the look of the buffer
\* with the chunk, which holds no target
NoTargetYet ==
    /\ EligibleStatus
    /\ DeclaredHTML \/ (AllSpace(DeclaredType) /\ Sniffed(Grown) = "Eligible")
    /\ ~OccursFold(Grown, w.injectBefore)
    /\ w.alsoMatchBodyClose => ~OccursFold(Grown, BodyClose)

\* a Write of a chunk that leaves the buffer below the limit, on an
\* Undecided response that is not encoded and is indeterminate or HTML
\* without a target so far
UndecidedWrite ==
    /\ h'.written # h.written
    /\ w.state = undecided
    /\ DeclaredEncoding = <<>>
    /\ Len(Grown) < w.lookaheadLimit
    /\ StillIndeterminate \/ NoTargetYet

\* the chunk went into the buffer whole, nothing reached the sink, the
\* decision is Undecided and the call returned len(p) and no error
Absorbed ==
    /\ h'.pc # "panicked"
    /\ w'.state = undecided
    /\ w'.buf = Grown
    /\ sink' = sink
    /\ Returns.n = Len(Chunk)
    /\ ~Returns.err

\* C30 as stated: a Write on an Undecided response whose buffer stays below
\* the limit and is indeterminate, or is HTML without a target so far,
\* absorbs the chunk whole, emits nothing, leaves the decision Undecided
\* and returns the length of the chunk.
C30_Original == [][UndecidedWrite => Absorbed]_vars

\* C30, amended: the same, provided the buffer with the chunk does not
\* hold the script source.
C30_AbsorbedWhileUndecided ==
    [][(UndecidedWrite /\ ~Occurs(Grown, w.scriptSrc)) => Absorbed]_vars

\* a response declared as HTML has been written in part, without a target
\* so far: everything written is in the buffer, below the limit, and
\* nothing has reached the sink
C30_Witness ==
    /\ h.pc = "body"
    /\ w.state = undecided
    /\ EligibleStatus
    /\ DeclaredHTML
    /\ Len(h.written) >= 2
    /\ Len(h.written) < w.lookaheadLimit
    /\ w.buf = h.written
    /\ h.todo # <<>>
    /\ ~sink.wroteHeader
    /\ sink.body = <<>>

\* a Write of a non-empty chunk on a response whose decision is made
DecidedWrite ==
    /\ h'.written # h.written
    /\ w.state \in {passthrough, injecting}

\* the chunk reached the sink as it is and nothing else changed (but that
\* the status counts as declared when it was not before); the call
\* returned what the sink returned: the length of the chunk, or nothing
\* written and the error of a sink that refuses
ForwardedAsIs ==
    /\ h'.pc = "body"
    /\ w' = [w EXCEPT !.wroteHeader = TRUE]
    /\ g'.injections = g.injections
    /\ IF sink.failing
       THEN /\ sink' = [sink EXCEPT !.refused = TRUE]
            /\ Returns.n = 0
            /\ Returns.err
       ELSE /\ sink' = [sink EXCEPT !.body = @ \o Chunk]
            /\ Returns.n = Len(Chunk)
            /\ ~Returns.err

\* C31: once the decision is Passthrough or Injecting, a Write hands
\* exactly its chunk to the sink in the same call, buffers nothing,
\* returns the sink's result, and neither classifies nor splices again,
\* whatever the chunk holds.
C31_DecidedForwards == [][DecidedWrite => ForwardedAsIs]_vars

\* a response declared as HTML was written as two target tags in two
\* chunks: the first was spliced, the second went out as it is
C31_Witness ==
    /\ h.written = HeadCloseUpper \o HeadCloseUpper
    /\ w.state = injecting
    /\ g.afterInject
    /\ g.injections = 1
    /\ w.buf = <<>>
    /\ sink.body = TheSnippet \o h.written

\* what the next call would do to the captured status: a WriteHeader sets
\* it when it is the first and is ignored otherwise; a Write, of an empty
\* chunk too, fixes it to 200 when no WriteHeader came before
StatusCaptured ==
    /\ \A s \in StatusCodes :
          swWriteHeader(w, s).status = IF w.wroteHeader THEN w.status ELSE s
    /\ \A p \in {<<>>, <<"x">>} :
          LET r == swWrite([w |-> w, sink |-> sink], p)
          IN  /\ r.w.wroteHeader
              /\ r.w.status = IF w.wroteHeader THEN w.status ELSE StatusOK

\* once fixed, the captured status stays
StatusKept == w.wroteHeader => (w'.wroteHeader /\ w'.status = w.status)

\* C32 as stated: the captured status is fixed by the first WriteHeader or
\* Write, and the status committed on the sink is the captured status.
C32_Original ==
    /\ []StatusCaptured
    /\ [][StatusKept]_vars
    /\ [](sink.wroteHeader => sink.status = w.status)

\* C32, amended: the captured status is fixed by the first WriteHeader or
\* Write; the status committed on the sink is the captured status at the
\* header flush and stays; it is still the captured status afterwards
\* unless a Flush or Hijack resolved the response.
C32_StatusFixed ==
    /\ []StatusCaptured
    /\ [][StatusKept]_vars
    /\ [][HeaderFlushStep => sink'.status = w'.status]_vars
    /\ [][sink.wroteHeader =>
             (sink'.wroteHeader /\ sink'.status = sink.status)]_vars
    /\ []((sink.wroteHeader /\ NotForced) => sink.status = w.status)

\* the handler declared 404 and wrote a body: 404 was committed, and a
\* further WriteHeader(200) would change nothing
C32_Witness ==
    /\ g.declared = 404
    /\ w.wroteHeader
    /\ w.status = 404
    /\ sink.wroteHeader
    /\ sink.status = 404
    /\ sink.body # <<>>
    /\ swWriteHeader(w, StatusOK) = w

\* the handler has returned without a body byte, a Flush or a Hijack
BareReturn == Returned /\ h.written = <<>> /\ h.todo = <<>> /\ NotForced

\* every value of every captured header is among the committed ones
CapturedCommitted ==
    \A name \in HeaderNames :
        \A i \in 1..Len(Values(w.header, name)) :
            \E j \in 1..Len(Values(sink.sent, name)) :
                Values(sink.sent, name)[j] = Values(w.header, name)[i]

\* C33: when the handler of an intercepted request returns without having
\* written a body byte, the captured headers and the captured status (200
\* when none was declared) are committed on the sink exactly once, no
\* header is removed and no body byte is written.
C33_BareResponseCommitted ==
    /\ [](BareReturn =>
             /\ sink.wroteHeader
             /\ sink.whCalls = 1
             /\ ~sink.bodyFirst
             /\ sink.status = w.status
             /\ sink.status = DeclaredStatus
             /\ sink.body = <<>>
             /\ CapturedCommitted)
    /\ [][(h.pc # "done" /\ h'.pc = "done" /\ h.written = <<>>) =>
             w'.header = w.header]_vars

\* a handler declared 404, set a length, a validator and, after
\* WriteHeader, one more header, and returned: all of it is on the sink
C33_Witness ==
    /\ BareReturn
    /\ g.declared = 404
    /\ sink.status = 404
    /\ Values(sink.sent, "Content-Length") = << <<"9">> >>
    /\ Values(sink.sent, "Etag") = << <<"e">> >>
    /\ Values(sink.sent, "X-Other") = << <<"l">> >>
    /\ Values(sink.sent, "Content-Type") = <<HTMLType>>

\* C34: a Write call that returns a nil error returns the length of the
\* chunk it was given, in every decision state and for every chunk size.
C34_Claim ==
    [][(h'.written # h.written /\ ~Returns.panic /\ ~Returns.err) =>
          Returns.n = Len(Chunk)]_vars

\* C35: between operations the decision is Undecided exactly when the
\* headers have not been committed on the sink, and while it is Undecided
\* no body byte has reached the sink: all that was written is in the
\* buffer.
C35_UndecidedHoldsAll ==
    /\ (w.state = undecided) <=> ~sink.wroteHeader
    /\ (w.state = undecided) <=> ~w.headersFlushed
    /\ w.state = undecided =>
          /\ sink.body = <<>>
          /\ sink.whCalls = 0
          /\ h.pc # "panicked" => w.buf = h.written

\* a response declared as HTML with eight bytes written and no target so
\* far: undecided, nothing committed, all eight bytes in the buffer
C35_Witness ==
    /\ w.state = undecided
    /\ DeclaredHTML
    /\ Len(h.written) = 8
    /\ w.buf = h.written
    /\ ~sink.wroteHeader
    /\ h.todo # <<>>

InOneChunk ==
    LET fresh == [newStreamWriter(w.lookaheadLimit, w.scriptSrc, w.websiteID,
                                  w.injectBefore, w.alsoMatchBodyClose,
                                  w.injectOnNon2xx)
                  EXCEPT !.header = w.header, !.status = w.status,
                         !.wroteHeader = TRUE]
        r == swWrite([w |-> fresh, sink |-> NewSink], h.written)
    IN  [panic |-> r.panic, sink |-> swFinish([w |-> r.w, sink |-> r.sink]).sink]

\* C37: for a fixed configuration, status, header set and body, and
\* without Flush or Hijack, the sink holds the same status, headers and
\* bytes after finish for every way of splitting the body into chunks.
C37_Claim ==
    (Returned /\ h.todo = <<>> /\ NotForced /\ ~InOneChunk.panic) =>
        /\ sink.body = InOneChunk.sink.body
        /\ sink.sent = InOneChunk.sink.sent
        /\ sink.status = InOneChunk.sink.status

\* the snippet stands in the returned bytes at an offset of the buffer at
\* which a target begins
SplicedAtTarget ==
    \E i \in 0..Len(h.prefix) :
        /\ g.updated = InsertAt(h.prefix, i, Snippet(h.scriptSrc, h.websiteID))
        /\ \/ OccursFoldAt(h.prefix, h.injectBefore, i)
           \/ h.alsoMatchBodyClose /\ OccursFoldAt(h.prefix, BodyClose, i)

\* C38: for every buffer, bytes of 0x80 and above and invalid UTF-8
\* included, tryInject does not slice beyond the buffer, and when it
\* splices, the bytes that follow the snippet are the target it matched.
C38_Claim ==
    h.pc = "returned" => (~g.panic /\ (g.ok => SplicedAtTarget))

\* every value the captured header set holds after this step is among the
\* headers the sink has committed after this step
SnapshotTaken ==
    \A name \in HeaderNames :
        \A i \in 1..Len(Values(w'.header, name)) :
            \E j \in 1..Len(Values(sink'.sent, name)) :
                Values(sink'.sent, name)[j] = Values(w'.header, name)[i]

\* C39: the headers committed on the sink are the captured header set as
\* it is at the header flush, with the mutations made before it, also
\* those after WriteHeader (on a sink without headers of its own they are
\* exactly that set); mutations made after the flush leave the sink's
\* headers as they are.
C39_HeaderSnapshot ==
    /\ [][HeaderFlushStep =>
             /\ SnapshotTaken
             /\ sink'.sent = sink'.hdr
             /\ sink.hdr = NoHeaders =>
                    \A name \in HeaderNames :
                        Values(sink'.sent, name) = Values(w'.header, name)]_vars
    /\ [][w.headersFlushed =>
             (sink'.sent = sink.sent /\ sink'.hdr = sink.hdr)]_vars

\* the handler set X-Other, declared 404, and set X-Other again after the
\* headers had gone out: the sink holds the first value, the captured set
\* the second
C39_Witness ==
    /\ w.headersFlushed
    /\ g.declared = 404
    /\ sink.status = 404
    /\ Values(sink.sent, "X-Other") = << <<"v">> >>
    /\ Values(w.header, "X-Other") = << <<"l">> >>
    /\ sink.hdr = sink.sent

====
